---- MODULE Spec2Model ----
(***************************************************************************)
(* Model of dek's reconciliation runtime: the Runner (src/runner.rs) that  *)
(* drives Plan / Check / Apply over a list of StateItems, the provider     *)
(* registry and requirement resolver (src/providers/mod.rs) and the        *)
(* fingerprint store (src/cache.rs), and the probe evaluator               *)
(* (src/state.rs) that collect_state_items calls for file templates and    *)
(* that the `state` command runs over the whole probe list.                *)
(*                                                                         *)
(* The target machine is the environment: `sat` is the set of resources    *)
(* whose provider check reports Satisfied, `installed` the binaries that   *)
(* which(1) resolves, `store` the on-disk fingerprint store.  A successful *)
(* apply_live puts the resource into `sat` (the provider contract);        *)
(* whether a check or an apply_live returns Err is chosen by the           *)
(* environment at every call.                                              *)
(***************************************************************************)
EXTENDS Integers, Sequences, FiniteSets, TLC

\* ---------------------------------------------------------------- bounds
MaxItems == 2
MaxRuns == 2
MaxProbes == 3
MaxRules == 2
MaxAge == 2

\* Option::None
None == "<none>"

\* Nothing printed as a summary yet.
NoSummary == [kind |-> "none"]

\* ------------------------------------------------------ provider registry
\* ProviderRegistry::new: the provider names, in registration order.
Registry ==
  << "package.os", "package.apt", "package.pacman", "package.cargo",
     "package.go", "package.webi", "package.npm", "package.pip",
     "package.pipx", "service", "file.copy", "file.symlink",
     "file.ensure_line", "file.line", "alias", "env", "command", "script",
     "assert" >>

\* ProviderRegistry::get(kind).is_some(): exact match on the name.
RegistryGet(kind) == \E n \in 1..Len(Registry) : Registry[n] = kind

Req(b, m) == [binary |-> b, install |-> m]

\* Provider::requires, per kind (default: empty).
requires(kind) ==
  CASE kind = "package.cargo" ->
         << Req("cargo", "Rustup"), Req("cargo-binstall", "CargoBinstall") >>
    [] kind = "package.go"    -> << Req("go", "Webi(golang)") >>
    [] kind = "package.npm"   -> << Req("npm", "Webi(node)") >>
    [] kind = "package.pip"   -> << Req("pip3", "Webi(python)") >>
    [] kind = "package.pipx"  -> << Req("pipx", "Pip(pipx)") >>
    [] OTHER -> << >>

\* Provider::is_check_only: true only for the assertion provider.
is_check_only(kind) == kind = "assert"

\* Provider::needs_sudo: the kinds whose apply shells out through sudo.
needs_sudo(kind) == kind \in {"package.os", "package.apt", "package.pacman"}

\* ------------------------------------------------------------------ items
Item(kind, key, run_if, cache_key) ==
  [kind |-> kind, key |-> key, run_if |-> run_if, cache_key |-> cache_key]

CacheKeys == {"v1", "v2"}

\* The items a run may be given.  "file.template" is a kind that
\* collect_state_items emits and that the registry does not hold.
ItemUniverse ==
  {Item("command", "a", None, c) : c \in {None} \cup CacheKeys}
    \cup {Item("command", "a", "false", "v1"), Item("command", "b", None, "v1")}
    \cup {Item("assert", "a", None, c) : c \in {None, "v1"}}
    \cup {Item(k, "a", r, None) :
            k \in {"package.cargo", "package.apt", "file.template"},
            r \in {None, "false"}}

\* The kind and the key are joined without a separator.
cache_item_id_NoSeparator(item) == item.kind \o item.key

\* cache_item_id: "{kind}:{key}"
cache_item_id(item) == item.kind \o ":" \o item.key

StoreIds == {cache_item_id(it) : it \in ItemUniverse}

Binaries == {"cargo", "cargo-binstall"}

VARIABLES
  mode,        \* Runner.mode
  items,       \* the item list handed to run_items
  run,         \* number of the current run (the same list is run again)
  pc,          \* position of the run: collect, probes, start, resolve, sudo,
               \* loop, ok, err (state: the `state` command)
  idx,         \* loop index into items (1-based)
  changed, failed, skipped, issues,   \* apply_all counters
  satisfied, missing,                 \* check_all counters
  calls,       \* provider calls made in this run, in order
  pending,     \* requirements still to satisfy in resolve_requirements
  resolved,    \* requirements whose satisfy() was called in this run
  sudoCalls,   \* number of `sudo -v` invocations in this run
  summary,     \* the summary printed by this run, or NoSummary
  fatal,       \* this run returned Err from a `?` (not from failed > 0)
  store,       \* fingerprint store: id -> stored cache_key or None
  sat,         \* resources whose check reports Satisfied
  installed,   \* binaries resolvable on PATH
  isRoot,      \* geteuid() == 0
  rekeyed      \* items found satisfied at first, with another key's fingerprint

runnerVars == << mode, items, run, pc, idx, changed, failed, skipped, issues,
                 satisfied, missing, calls, pending, resolved, sudoCalls,
                 summary, fatal, store, sat, installed, isRoot, rekeyed >>

VARIABLES
  config_state, \* config.state: the probe definitions, in config order
  needed,       \* the probe names the file templates list in `states`
  states,       \* the probe list handed to eval_all
  ppc,          \* position of the evaluation pass: idle, eval, done, err
  layers,       \* the layers topo_sort returned
  layer,        \* index of the layer being evaluated (1-based)
  evald,        \* the eval_single calls of this pass, in order
  results,      \* eval_all's map from probe name to StateResult
  answer,       \* what state::run gave for the query
  pcache        \* the probe cache files: cache key -> CacheEntry

probeVars == << config_state, needed, states, ppc, layers, layer, evald,
                results, answer, pcache >>

VARIABLES
  req,          \* the requirement satisfy() is called on
  env_home,     \* $HOME of the process, None when unset
  env_path,     \* $PATH of the process: whether it is set, and its entries
  files,        \* the executables on disk, as << directory, name >>
  sres          \* what satisfy() returned: none (not yet), ok, err

envVars == << req, env_home, env_path, files, sres >>

vars == << runnerVars, probeVars, envVars >>

counters == << changed, failed, skipped, issues, satisfied, missing >>
world == << store, sat, installed, isRoot >>

\* ------------------------------------------------------ runner helpers
Modes == {"Plan", "Check", "Apply"}

\* The exit status of `sh -c cmd`, for the predicates the items carry.
ShellOk(cmd) == cmd = "true"

\* The gate is not evaluated: every item runs.
should_run_Always(item) == TRUE

\* should_run: no run_if, or the run_if command exits 0.
should_run(item) == item.run_if = None \/ ShellOk(item.run_if)

\* cache::get_state: the stored fingerprint, None when the file is absent.
get_state(id) == store[id]

\* cache::set_state: whole-file replacement of the fingerprint.
set_state(id, value) == [store EXCEPT ![id] = value]

\* is_cache_fresh: the declared cache_key equals the stored fingerprint.
is_cache_fresh(item) ==
  IF item.cache_key = None THEN FALSE
  ELSE get_state(cache_item_id(item)) = item.cache_key

\* update_cache: the store after a successful apply of item.
update_cache(item) ==
  IF item.cache_key # None THEN set_state(cache_item_id(item), item.cache_key)
  ELSE store

\* Provider::check reporting Satisfied for the item on this machine.
CheckSatisfied(item) == cache_item_id(item) \in sat

Call(op, i) == [op |-> op, item |-> i]

\* collect_requirements: requires() of each distinct registered kind, in
\* first-seen order; seen is seen_kinds.
RECURSIVE CollectFrom(_, _, _)
CollectFrom(its, i, seen) ==
  IF i > Len(its) THEN << >>
  ELSE IF its[i].kind \in seen THEN CollectFrom(its, i + 1, seen)
  ELSE (IF RegistryGet(its[i].kind) THEN requires(its[i].kind) ELSE << >>)
         \o CollectFrom(its, i + 1, seen \cup {its[i].kind})

collect_requirements(its) == CollectFrom(its, 1, {})

\* The requires() calls collect_requirements makes, tagged with the item
\* on whose behalf each is made.
RECURSIVE RequiresCalls(_, _, _)
RequiresCalls(its, i, seen) ==
  IF i > Len(its) THEN << >>
  ELSE IF its[i].kind \in seen THEN RequiresCalls(its, i + 1, seen)
  ELSE (IF RegistryGet(its[i].kind) THEN << Call("requires", i) >> ELSE << >>)
         \o RequiresCalls(its, i + 1, seen \cup {its[i].kind})

\* Nothing is deduplicated: every collected requirement is satisfied.
Dedupe_KeepsAll(reqs, seen) == reqs

\* resolve_requirements: keep the first occurrence of each requirement.
RECURSIVE Dedupe(_, _)
Dedupe(reqs, seen) ==
  IF reqs = << >> THEN << >>
  ELSE IF Head(reqs) \in seen THEN Dedupe(Tail(reqs), seen)
  ELSE << Head(reqs) >> \o Dedupe(Tail(reqs), seen \cup {Head(reqs)})

\* any_needs_sudo: false for root, else whether some item's provider
\* needs sudo.
any_needs_sudo(its) ==
  /\ ~isRoot
  /\ \E i \in 1..Len(its) : RegistryGet(its[i].kind) /\ needs_sudo(its[i].kind)

\* The needs_sudo() calls of any_needs_sudo: `any` stops at the first true.
RECURSIVE NeedsSudoCalls(_, _)
NeedsSudoCalls(its, i) ==
  IF i > Len(its) THEN << >>
  ELSE IF ~RegistryGet(its[i].kind) THEN NeedsSudoCalls(its, i + 1)
  ELSE IF needs_sudo(its[i].kind) THEN << Call("needs_sudo", i) >>
  ELSE << Call("needs_sudo", i) >> \o NeedsSudoCalls(its, i + 1)

\* ------------------------------------------------------ probe evaluator
\* StateConfig, as far as ordering goes: a name and the deps it lists.
\* A map with no key.
EmptyMap == [n \in {} |-> None]

\* StateConfig.ttl: not declared, or the text of a duration, one
\* character at a time.
NoTtl == [some |-> FALSE, text |-> << >>]
TtlText(text) == [some |-> TRUE, text |-> text]

\* StateConfig: name, deps, cmd, expr, rewrite rules and named templates;
\* no ttl is declared.
StateConfig(name, deps, cmd, expr, rewrite, templates) ==
  [name |-> name, deps |-> deps, cmd |-> cmd, expr |-> expr,
   rewrite |-> rewrite, templates |-> templates, ttl |-> NoTtl]

\* The same probe with `ttl: <text>`.
WithTtl(state, text) == [state EXCEPT !.ttl = TtlText(text)]

\* A probe that only orders: no cmd, no expr, no rewrite, no template.
Probe(name, deps) ==
  StateConfig(name, deps, None, [kind |-> "none"], << >>, EmptyMap)

\* The name of the probe written at each position of the config; a later
\* entry may also repeat the name "a" (merged configs are concatenated).
ProbeNames == << "a", "b", "c", "d", "e" >>

\* The deps a probe may list: none, one, two, a repeated one, and "x",
\* which no probe is named.
DepLists ==
  { << >>, << "a" >>, << "b" >>, << "c" >>, << "a", "b" >>, << "b", "c" >>,
    << "a", "a" >>, << "x" >> }

OrderLists ==
  UNION {{ps \in [1..n -> {Probe(nm, d) : nm \in {"a", "b", "c", "d", "e"},
                                          d \in DepLists}] :
            \A i \in 1..n : ps[i].name \in {ProbeNames[i], "a"}} :
         n \in 0..MaxProbes}

\* Templates, as far as rendering can tell them apart: a literal, a
\* reference to a variable, a reference to a field of a variable, and a
\* source that does not parse.
Lit(text) == [kind |-> "lit", text |-> text]
Var(v) == [kind |-> "var", var |-> v]
Attr(v, f) == [kind |-> "attr", var |-> v, field |-> f]
BadSyntax == [kind |-> "bad"]

\* No expr is declared.
NoExpr == [kind |-> "none"]

\* Rewrite rules: a pattern and the literal replacement.
Rule(pattern, value) == [pattern |-> pattern, value |-> value]

Rules == {Rule(pt, v) : pt \in {"^Linux$", "inux", "("}, v \in {"linux", "x"}}

RuleLists == UNION {[1..n -> Rules] : n \in 0..MaxRules}

\* The named templates a probe may declare.
TemplateMaps ==
  {EmptyMap}
    \cup {("t" :> tp) : tp \in {Lit("ok"), Var("raw"), Var("missing"), BadSyntax}}
    \cup {("t" :> tp) @@ ("u" :> Var("original")) :
            tp \in {Lit("ok"), Var("missing")}}

\* Probe lists whose probes compute values: one probe with a command,
\* rewrite rules and templates; two independent probes with commands; and
\* a chain a <- b <- c whose last probe reads a dep or a dep's dep.
ValueLists ==
  {<< StateConfig("a", << >>, "cmd", NoExpr, rw, tm) >> :
     rw \in RuleLists, tm \in TemplateMaps}
    \cup {<< StateConfig("a", << >>, "cmd", NoExpr, << >>, EmptyMap),
             StateConfig("b", << >>, "cmd", NoExpr, << >>, EmptyMap) >>}
    \cup {<< StateConfig("a", << >>, "cmd", NoExpr,
                         << Rule("^Linux$", "linux") >>, EmptyMap),
             StateConfig("b", << "a" >>, None, Attr("a", "raw"), << >>,
                         EmptyMap),
             StateConfig("c", << "b" >>, None, Attr(v, "raw"), << >>,
                         ("t" :> Attr(w, "original"))) >> :
            v \in {"a", "b"}, w \in {"a", "b"}}

\* Probe lists with a ttl: one probe with a command and a ttl that parses
\* ("1s") or does not ("s"); a probe with a ttl and no command; and two
\* probes of one name, both with a command and a ttl (merged configs).
TtlLists ==
  {<< WithTtl(StateConfig("a", << >>, "cmd", NoExpr, << >>, EmptyMap), t) >> :
     t \in {<< "1", "s" >>, << "s" >>}}
    \cup {<< WithTtl(StateConfig("a", << >>, None, Lit("ok"), << >>, EmptyMap),
                     << "1", "s" >>) >>}
    \cup {<< WithTtl(StateConfig("a", << >>, "cmd", NoExpr, << >>, EmptyMap),
                     << "1", "s" >>),
             WithTtl(StateConfig("a", << >>, "cmd2", NoExpr, << >>, EmptyMap),
                     << "1", "s" >>) >>}

\* Two probes of one name with commands and no ttl, and a third probe
\* that reads the name.
SameNameLists ==
  {<< StateConfig("a", << >>, "cmd", NoExpr, << >>, EmptyMap),
      StateConfig("a", << >>, "cmd2", NoExpr, << >>, EmptyMap) >>,
   << StateConfig("a", << >>, "cmd", NoExpr, << >>, EmptyMap),
      StateConfig("a", << >>, "cmd2", NoExpr, << >>, EmptyMap),
      StateConfig("c", << "a" >>, None, Attr("a", "raw"), << >>, EmptyMap) >>}

ProbeLists == OrderLists \cup ValueLists \cup TtlLists \cup SameNameLists

\* The lists a probe cache left by an earlier run is looked at with.
CacheLists ==
  TtlLists
    \cup {<< StateConfig("a", << >>, "cmd", NoExpr, << >>, EmptyMap),
             StateConfig("b", << >>, "cmd", NoExpr, << >>, EmptyMap) >>}

\* What running a probe's command can give: it cannot be started, or it
\* exits with a status after writing stdout (given here trimmed).
CmdOutcomes ==
  {[started |-> FALSE, status |-> 1, stdout |-> ""]}
    \cup {[started |-> TRUE, status |-> st, stdout |-> t] :
            st \in {0, 1}, t \in {"", "Linux", "linux"}}

\* regex::Regex::new(pattern).is_ok()
RegexOk(pattern) == pattern # "("

\* re.is_match(text), for the patterns above.
is_match(pattern, text) ==
  CASE pattern = "^Linux$" -> text = "Linux"
    [] pattern = "inux" -> text \in {"Linux", "linux"}
    [] OTHER -> FALSE

\* Index of the first rule that compiles and matches, 0 when none does.
RECURSIVE FirstMatch(_, _, _)
FirstMatch(rules, text, m) ==
  IF m > Len(rules) THEN 0
  ELSE IF RegexOk(rules[m].pattern) /\ is_match(rules[m].pattern, text) THEN m
  ELSE FirstMatch(rules, text, m + 1)

\* The last matching rule wins.
RECURSIVE Rewrite_LastWins(_, _)
Rewrite_LastWins(rules, text) ==
  IF rules = << >> THEN [raw |-> text, original |-> None]
  ELSE LET m == Len(rules)
       IN IF RegexOk(rules[m].pattern) /\ is_match(rules[m].pattern, text)
            THEN [raw |-> rules[m].value, original |-> text]
            ELSE Rewrite_LastWins(SubSeq(rules, 1, m - 1), text)

\* eval_single, lines 200-211: the first matching rule replaces raw and
\* the text before the rewrite is kept as original.
Rewrite(rules, text) ==
  IF FirstMatch(rules, text, 1) = 0 THEN [raw |-> text, original |-> None]
  ELSE [raw |-> rules[FirstMatch(rules, text, 1)].value, original |-> text]

\* Rendering a template against a context: Ok(text) or Err.  An unknown
\* variable prints as empty when lenient and is an error when strict; a
\* field of an unknown variable is an error either way.
Render(tp, ctx, strict) ==
  CASE tp.kind = "lit" -> [ok |-> TRUE, text |-> tp.text]
    [] tp.kind = "var" ->
         IF tp.var \in DOMAIN ctx THEN [ok |-> TRUE, text |-> ctx[tp.var]]
         ELSE [ok |-> ~strict, text |-> ""]
    [] tp.kind = "attr" ->
         IF tp.var \notin DOMAIN ctx THEN [ok |-> FALSE, text |-> ""]
         ELSE IF tp.field \in DOMAIN ctx[tp.var]
           THEN [ok |-> TRUE, text |-> ctx[tp.var][tp.field]]
         ELSE [ok |-> ~strict, text |-> ""]
    [] OTHER -> [ok |-> FALSE, text |-> ""]

\* dep_map of one dep result: raw, then original, then the templates (a
\* later insert replaces an earlier one).
DepMap(r) ==
  r.templates
    @@ (IF r.original # None THEN ("original" :> r.original) ELSE EmptyMap)
    @@ ("raw" :> r.raw)

\* dep_name.replace('-', "_"), for the names used here.
CtxKey(dep_name) == IF dep_name = "os-name" THEN "os_name" ELSE dep_name

\* The dep entries of a render context: one per dep result handed in,
\* keyed by the dep's name with '-' replaced.
DepCtx(dep_results) ==
  [k \in {CtxKey(d) : d \in DOMAIN dep_results} |->
     DepMap(dep_results[CHOOSE d \in DOMAIN dep_results : CtxKey(d) = k])]

\* util::parse_duration: digits are collected into a number; a unit
\* character closes the number (an empty number does not parse, nor does
\* an unknown unit) and adds it, in seconds; a trailing bare number is
\* seconds.
DigitVal == ("0" :> 0) @@ ("1" :> 1) @@ ("2" :> 2) @@ ("3" :> 3) @@ ("4" :> 4)
              @@ ("5" :> 5) @@ ("6" :> 6) @@ ("7" :> 7) @@ ("8" :> 8)
              @@ ("9" :> 9)

UnitSecs == ("s" :> 1) @@ ("m" :> 60) @@ ("h" :> 3600) @@ ("d" :> 86400)

DurationErr == [ok |-> FALSE, secs |-> 0]

RECURSIVE parse_duration_from(_, _, _, _, _)
parse_duration_from(s, k, total_secs, n, num_buf_empty) ==
  IF k > Len(s)
    THEN [ok |-> TRUE,
          secs |-> IF num_buf_empty THEN total_secs ELSE total_secs + n]
  ELSE IF s[k] \in DOMAIN DigitVal
    THEN parse_duration_from(s, k + 1, total_secs, n * 10 + DigitVal[s[k]],
                             FALSE)
  ELSE IF num_buf_empty \/ s[k] \notin DOMAIN UnitSecs THEN DurationErr
  ELSE parse_duration_from(s, k + 1, total_secs + n * UnitSecs[s[k]], 0, TRUE)

parse_duration(s) == parse_duration_from(s, 1, 0, 0, TRUE)

\* eval_single, lines 132-135: the ttl, when one is declared and parses.
Ttl(state) ==
  IF state.ttl.some THEN parse_duration(state.ttl.text) ELSE DurationErr

\* eval_single, line 136: format!("state-probe:{}", state.name)
probe_cache_key(name) == "state-probe:" \o name

\* A cache file: its bytes and the time since it was written; no file.
CacheEntry(data, age) == [data |-> data, age |-> age]
NoEntry == CacheEntry(None, 0)

\* The file cache_path(key) names, in a cache directory c.
EntryAt(c, key) == IF key \in DOMAIN c THEN c[key] ELSE NoEntry

\* No age test: a file of any age is a hit.
cache_get_AnyAge(entry, max_age) == entry.data

\* cache::get(key, Some(max_age)) on the file it finds: None when there
\* is no file or when the file is older than max_age, else its bytes.
cache_get(entry, max_age) ==
  IF entry = NoEntry THEN None
  ELSE IF entry.age > max_age THEN None
  ELSE entry.data

\* eval_single, lines 138-161: the command's output: the cached text on
\* a hit, else what the command wrote (the exit status is not looked at;
\* a command that cannot be started gives the empty text).
CmdOutput(state, outcome) ==
  IF state.cmd = None THEN None
  ELSE IF outcome.cached # None THEN outcome.cached
  ELSE IF outcome.started THEN outcome.stdout ELSE ""

\* eval_single, lines 155-158: the text cache::set is called with, None
\* when it is not called: the command ran and a ttl is configured.
CacheStored(state, outcome) ==
  IF state.cmd # None /\ Ttl(state).ok /\ outcome.cached = None
    THEN CmdOutput(state, outcome)
    ELSE None

\* eval_single, lines 164-198: the text before the rewrite rules: the
\* command's output, or the expr rendered leniently over raw and the deps
\* (a render error gives the empty text).
raw_before_rewrite(state, dep_results, outcome) ==
  LET cmd_raw == IF CmdOutput(state, outcome) = None THEN ""
                 ELSE CmdOutput(state, outcome)
      rendered == IF state.expr.kind = "none" THEN [ok |-> TRUE, text |-> cmd_raw]
                  ELSE Render(state.expr,
                              DepCtx(dep_results) @@ ("raw" :> cmd_raw), FALSE)
  IN IF rendered.ok THEN rendered.text ELSE ""

\* eval_single: the StateResult of a probe, given the results of its deps
\* and what its command did.  Named templates are rendered strictly over
\* raw, original and the deps; one that fails is left out of the map.
eval_single(state, dep_results, outcome) ==
  LET rw == Rewrite(state.rewrite,
                    raw_before_rewrite(state, dep_results, outcome))
      ctx == DepCtx(dep_results)
               @@ (IF rw.original # None THEN ("original" :> rw.original)
                   ELSE EmptyMap)
               @@ ("raw" :> rw.raw)
      done == {n \in DOMAIN state.templates :
                 Render(state.templates[n], ctx, TRUE).ok}
  IN [name |-> state.name,
      original |-> rw.original,
      raw |-> rw.raw,
      templates |-> [n \in done |-> Render(state.templates[n], ctx, TRUE).text]]

\* StateResult::get_variant: raw for no variant and for "raw", original
\* (or raw) for "original", else the rendered template of that name.
get_variant(r, variant) ==
  CASE variant \in {None, "raw"} -> [ok |-> TRUE, value |-> r.raw]
    [] variant = "original" ->
         [ok |-> TRUE, value |-> IF r.original # None THEN r.original ELSE r.raw]
    [] OTHER ->
         IF variant \in DOMAIN r.templates
           THEN [ok |-> TRUE, value |-> r.templates[variant]]
           ELSE [ok |-> FALSE, value |-> None]

\* name_to_idx.contains_key(name)
Known(ps, name) == \E i \in 1..Len(ps) : ps[i].name = name

\* name_to_idx[name]: the map is collected in list order, so the last
\* probe of a name is the one the name resolves to.
name_to_idx(ps, name) ==
  CHOOSE i \in 1..Len(ps) :
    ps[i].name = name /\ \A j \in (i + 1)..Len(ps) : ps[j].name # name

\* topo_sort, lines 71-78: every dep names a probe of the list.
DepsKnown(ps) ==
  \A i \in 1..Len(ps) : \A k \in 1..Len(ps[i].deps) : Known(ps, ps[i].deps[k])

\* dependents[d]: i is pushed once for every dep of probe i that resolves
\* to d, for i in list order.
RECURSIVE dependents(_, _, _)
dependents(ps, d, i) ==
  IF i > Len(ps) THEN << >>
  ELSE [k \in 1..Cardinality({m \in 1..Len(ps[i].deps) :
                                name_to_idx(ps, ps[i].deps[m]) = d}) |-> i]
         \o dependents(ps, d, i + 1)

\* Lines 101-106 for one ready probe: each dependent's in_degree goes down
\* by one, and a dependent that reaches 0 is pushed on next_ready.  The
\* counter is a usize: a value below 0 here stands for the subtraction
\* underflowing (a panic, or a wrap to the largest usize).
RECURSIVE Release(_, _, _)
Release(deps, in_degree, next_ready) ==
  IF deps = << >> THEN [in_degree |-> in_degree, next_ready |-> next_ready]
  ELSE LET j == Head(deps)
           d == [in_degree EXCEPT ![j] = @ - 1]
       IN Release(Tail(deps), d,
                  IF d[j] = 0 THEN Append(next_ready, j) ELSE next_ready)

\* Lines 100-107: the ready probes, in order.
RECURSIVE Drain(_, _, _, _)
Drain(ps, ready, in_degree, next_ready) ==
  IF ready = << >> THEN [in_degree |-> in_degree, next_ready |-> next_ready]
  ELSE LET r == Release(dependents(ps, Head(ready), 1), in_degree, next_ready)
       IN Drain(ps, Tail(ready), r.in_degree, r.next_ready)

\* Lines 96-109: the while loop.
RECURSIVE Kahn(_, _, _, _, _)
Kahn(ps, ready, in_degree, ls, processed) ==
  IF ready = << >>
    THEN [layers |-> ls, processed |-> processed, in_degree |-> in_degree]
  ELSE LET r == Drain(ps, ready, in_degree, << >>)
       IN Kahn(ps, r.next_ready, r.in_degree, Append(ls, ready),
               processed + Len(ready))

\* The counter starts at the number of distinct deps.
in_degree0_Distinct(ps) ==
  [i \in 1..Len(ps) |->
     Cardinality({ps[i].deps[k] : k \in 1..Len(ps[i].deps)})]

\* Lines 84-85: in_degree[i] = s.deps.len().
in_degree0(ps) == [i \in 1..Len(ps) |-> Len(ps[i].deps)]

\* Line 94: the probes whose in_degree is 0, in list order.
ready0(ps) ==
  SelectSeq([i \in 1..Len(ps) |-> i], LAMBDA i : in_degree0(ps)[i] = 0)

\* Lines 80-109: the layering, the number of probes layered and the
\* counters as the loop leaves them.
RunKahn(ps) == Kahn(ps, ready0(ps), in_degree0(ps), << >>, 0)

\* One probe per layer: the layered probes one after the other.
RECURSIVE Singletons(_)
Singletons(ls) ==
  IF ls = << >> THEN << >>
  ELSE [k \in 1..Len(Head(ls)) |-> << Head(ls)[k] >>] \o Singletons(Tail(ls))

\* The probes are put in a valid order, each in a layer of its own.
topo_sort_Serial(ps) ==
  IF ~DepsKnown(ps) THEN [ok |-> FALSE, err |-> "unknown", layers |-> << >>]
  ELSE IF RunKahn(ps).processed # Len(ps)
    THEN [ok |-> FALSE, err |-> "cycle", layers |-> << >>]
    ELSE [ok |-> TRUE, err |-> None, layers |-> Singletons(RunKahn(ps).layers)]

\* The cycle check is left out: whatever was layered is returned.
topo_sort_NoCycleCheck(ps) ==
  IF ~DepsKnown(ps) THEN [ok |-> FALSE, err |-> "unknown", layers |-> << >>]
  ELSE [ok |-> TRUE, err |-> None, layers |-> RunKahn(ps).layers]

\* topo_sort: Err on an unknown dep, Err when fewer probes were layered
\* than there are, else the layers.
topo_sort(ps) ==
  IF ~DepsKnown(ps) THEN [ok |-> FALSE, err |-> "unknown", layers |-> << >>]
  ELSE LET k == RunKahn(ps)
       IN IF k.processed # Len(ps)
            THEN [ok |-> FALSE, err |-> "cycle", layers |-> << >>]
            ELSE [ok |-> TRUE, err |-> None, layers |-> k.layers]

\* eval_states, lines 532-545: the needed names and, for each name that
\* resolves to a probe (the last of that name), the names it depends on.
RECURSIVE Required(_, _)
Required(cfg, names) ==
  LET more == names \cup
                UNION {{cfg[name_to_idx(cfg, nm)].deps[k] :
                          k \in 1..Len(cfg[name_to_idx(cfg, nm)].deps)} :
                       nm \in {m \in names : Known(cfg, m)}}
  IN IF more = names THEN names ELSE Required(cfg, more)

\* eval_states, lines 548-552: the required probes, in config order.
Filtered(cfg, names) ==
  SelectSeq(cfg, LAMBDA s : s.name \in Required(cfg, names))

\* The probe setups of a config with a file template: no probe asked for,
\* a chain, a two-probe cycle, an unknown dep, a self-dependent probe
\* that the template does not need, and a name that two probes carry
\* (merged configs), the first with a dep.
TemplateSetups ==
  { [state |-> << >>, needed |-> {}],
    [state |-> << Probe("a", << >>), Probe("b", << "a" >>) >>,
     needed |-> {"b"}],
    [state |-> << Probe("a", << "b" >>), Probe("b", << "a" >>) >>,
     needed |-> {"a"}],
    [state |-> << Probe("a", << "x" >>) >>, needed |-> {"a"}],
    [state |-> << Probe("a", << >>), Probe("b", << "b" >>) >>,
     needed |-> {"a"}],
    [state |-> << Probe("a", << "b" >>), Probe("b", << >>),
                  Probe("a", << >>) >>,
     needed |-> {"a"}] }

\* ------------------------------------------------- Requirement::satisfy
\* The requirements the registered providers declare.
Requirements ==
  UNION {{requires(Registry[n])[k] : k \in 1..Len(requires(Registry[n]))} :
           n \in 1..Len(Registry)}

Home == "/home/u"

\* format!("{}/.cargo/bin", home)
cargo_bin(home) == home \o "/.cargo/bin"

\* The three directories the Webi branch adds, in the order it tests them.
webi_paths(home) ==
  << home \o "/.local/bin", home \o "/.local/opt/go/bin", home \o "/go/bin" >>

PathUnset == [set |-> FALSE, dirs |-> << >>]
PathOf(dirs) == [set |-> TRUE, dirs |-> dirs]

\* The values $PATH may have when satisfy() is called.
Paths ==
  {PathUnset,
   PathOf(<< "/usr/bin" >>),
   PathOf(<< "/usr/local/bin", "/usr/bin" >>),
   PathOf(<< "/home/u/.cargo/bin", "/usr/bin" >>),
   PathOf(<< "/home/u/.cargo/bin-old", "/usr/bin" >>),
   PathOf(<< "/home/u/.local/bin", "/usr/bin" >>)}

\* The directories an installer may put the binary in.
InstallDirs == {"/home/u/.cargo/bin", "/home/u/.local/bin", "/usr/local/bin"}

\* What an installer does: it fails, or it succeeds and has put the
\* binary into one directory or into none that matters here.
InstallOutcomes ==
  {[ok |-> FALSE, placed |-> None]}
    \cup {[ok |-> TRUE, placed |-> d] : d \in InstallDirs \cup {None}}

\* which::which(binary).is_ok(): an executable of that name in a
\* directory $PATH names; nothing is found when $PATH is unset.
command_exists(binary, path, fs) ==
  /\ path.set
  /\ \E k \in 1..Len(path.dirs) : << path.dirs[k], binary >> \in fs

\* a is a substring of b, for the directory names used here.
IsSubstring(a, b) ==
  \/ a = b
  \/ a = "/home/u/.cargo/bin" /\ b = "/home/u/.cargo/bin-old"

\* path.contains(&dir): a substring test on the whole $PATH string.
PathContains(path, dir) ==
  \E k \in 1..Len(path.dirs) : IsSubstring(dir, path.dirs[k])

\* format!("{}:{}", dir, path), or dir alone when $PATH was unset.
Prepend(dir, path) == PathOf(<< dir >> \o path.dirs)

\* The Webi branch: each of the three directories is prepended unless the
\* string is already in $PATH; nothing is done when $PATH is unset.
RECURSIVE WebiPath(_, _, _)
WebiPath(path, dirs, k) ==
  IF k > Len(dirs) THEN path
  ELSE WebiPath(IF PathContains(path, dirs[k]) THEN path
                ELSE Prepend(dirs[k], path), dirs, k + 1)

\* $PATH after the branch of the install method, lines 119-214.
PathAfter(r, home, path) ==
  CASE home = None -> path
    [] r.install = "Rustup" -> Prepend(cargo_bin(home), path)
    [] r.install = "CargoBinstall" ->
         IF path.set /\ ~PathContains(path, cargo_bin(home))
           THEN Prepend(cargo_bin(home), path) ELSE path
    [] r.install \in {"Webi(golang)", "Webi(node)", "Webi(python)"} ->
         IF path.set THEN WebiPath(path, webi_paths(home), 1) ELSE path
    [] OTHER -> path

\* The early `return Ok(())` of the Rustup and CargoBinstall branches:
\* Path::new("{cargo_bin}/{binary}").exists().
ExistsInCargoBin(r, home, fs) ==
  /\ r.install \in {"Rustup", "CargoBinstall"}
  /\ home # None
  /\ << cargo_bin(home), r.binary >> \in fs

\* Requirement::satisfy: Ok at once when the binary is resolvable; else
\* the installer runs (its Err is returned), $PATH is extended as the
\* branch does, and the result is Ok on the branch's file test or on the
\* final is_satisfied(), Err otherwise.
satisfy(r, home, path, fs, outcome) ==
  IF command_exists(r.binary, path, fs)
    THEN [res |-> "ok", path |-> path, files |-> fs]
  ELSE IF ~outcome.ok
    THEN [res |-> "err", path |-> path, files |-> fs]
  ELSE LET fs2 == IF outcome.placed = None THEN fs
                  ELSE fs \cup {<< outcome.placed, r.binary >>}
           path2 == PathAfter(r, home, path)
       IN [res |-> IF \/ ExistsInCargoBin(r, home, fs2)
                      \/ command_exists(r.binary, path2, fs2)
                     THEN "ok" ELSE "err",
           path |-> path2, files |-> fs2]

\* ------------------------------------------------------------------- Init
\* No query has been answered.
NoAnswer ==
  [query |-> [name |-> None, variant |-> None], ok |-> FALSE, value |-> None]

ItemLists == UNION {[1..n -> ItemUniverse] : n \in 0..MaxItems}

\* The items a loop hands to a provider: gate passed, kind registered.
Reaches(item) == should_run(item) /\ RegistryGet(item.kind)

\* The store identifiers of the items that declare a cache_key.
KeyedIds(its) ==
  {cache_item_id(its[i]) : i \in {j \in 1..Len(its) : its[j].cache_key # None}}

Init ==
  /\ mode \in Modes
  /\ items \in ItemLists
  /\ run = 1
  /\ pc = "collect"
  /\ idx = 1
  /\ changed = 0 /\ failed = 0 /\ skipped = 0 /\ issues = 0
  /\ satisfied = 0 /\ missing = 0
  /\ calls = << >>
  /\ pending = << >>
  /\ resolved = << >>
  /\ sudoCalls = 0
  /\ summary = NoSummary
  /\ fatal = FALSE
  \* the store holds fingerprints only of items that declare a cache_key
  /\ store \in {[id \in StoreIds |-> IF id \in KeyedIds(items) THEN f[id] ELSE None] :
                  f \in [KeyedIds(items) -> CacheKeys \cup {None}]}
  /\ sat \in SUBSET {cache_item_id(items[i]) :
                       i \in {j \in 1..Len(items) : Reaches(items[j])}}
  /\ installed \in SUBSET Binaries
  /\ isRoot \in BOOLEAN
  \* what the run never reads is left at one value
  /\ mode = "Plan" => sat = {}
  /\ (\/ mode # "Apply"
      \/ \A i \in 1..Len(items) : requires(items[i].kind) = << >>)
       => installed = Binaries
  /\ (\/ mode # "Apply"
      \/ \A i \in 1..Len(items) : ~needs_sudo(items[i].kind))
       => ~isRoot
  /\ rekeyed = {i \in 1..Len(items) :
                  /\ items[i].cache_key # None
                  /\ store[cache_item_id(items[i])] \notin {None, items[i].cache_key}
                  /\ cache_item_id(items[i]) \in sat}
  \* probes are asked for only by a config that has a file template (the
  \* last item here)
  /\ \E t \in TemplateSetups :
       /\ config_state = t.state
       /\ needed = t.needed
       /\ t.needed # {}
            => /\ items # << >>
               /\ items[Len(items)] = Item("file.template", "a", None, None)
  /\ states = << >>
  /\ ppc = "idle"
  /\ layers = << >>
  /\ layer = 1
  /\ evald = << >>
  /\ results = EmptyMap
  /\ answer = NoAnswer
  /\ pcache = EmptyMap
  /\ req = Req("cargo", "Rustup")
  /\ env_home = Home
  /\ env_path = PathOf(<< "/usr/bin" >>)
  /\ files = {}
  /\ sres = "none"

\* ------------------------------------------- Runner::run, probe passes
\* eval_all, lines 274-275: topo_sort(states)? and an empty result map.
EvalAllEnter(ps) ==
  /\ states' = ps
  /\ evald' = << >>
  /\ results' = EmptyMap
  /\ layer' = 1
  /\ layers' = topo_sort(ps).layers
  /\ ppc' = IF topo_sort(ps).ok THEN "eval" ELSE "err"

\* collect_state_items when no template lists a probe: state_results is
\* empty and the items are built.
CollectNoStates ==
  /\ pc = "collect"
  /\ needed = {}
  /\ pc' = "start"
  /\ UNCHANGED << mode, items, run, idx, counters, calls, pending, resolved,
                  sudoCalls, summary, fatal, world, rekeyed, probeVars, envVars >>

\* collect_state_items, line 427: eval_states(&config.state, &needed).
CollectEvalStates ==
  /\ pc = "collect"
  /\ needed # {}
  /\ EvalAllEnter(Filtered(config_state, needed))
  /\ pc' = "probes"
  /\ UNCHANGED << mode, items, run, idx, counters, calls, pending, resolved,
                  sudoCalls, summary, fatal, world, rekeyed, envVars, config_state,
                  needed, answer, pcache >>

\* state::run, line 369: eval_all(&cfg.state)? over the whole probe list.
StateRun ==
  /\ pc = "state"
  /\ ppc = "idle"
  /\ EvalAllEnter(config_state)
  /\ pc' = IF topo_sort(config_state).ok THEN "state" ELSE "err"
  /\ UNCHANGED << mode, items, run, idx, counters, calls, pending, resolved,
                  sudoCalls, summary, fatal, world, rekeyed, envVars, config_state,
                  needed, answer, pcache >>

\* The probes of the layer being evaluated.
InLayer == {layers[layer][k] : k \in 1..Len(layers[layer])}

\* The probes eval_single has been called for in this pass.
Started == {evald[k].idx : k \in 1..Len(evald)}

\* eval_all, lines 293-299: the results of the deps the probe declares,
\* as far as the result map holds them.
dep_results(i) ==
  [d \in {states[i].deps[k] : k \in 1..Len(states[i].deps)}
           \cap DOMAIN results |-> results[d]]

\* The outcome of a probe that has no command to run.
NoCmd == [started |-> FALSE, status |-> 0, stdout |-> ""]

\* The calls of this layer that have written the cache file of a key.
LayerWrites(key) ==
  {k \in 1..Len(evald) :
     /\ evald[k].idx \in InLayer
     /\ evald[k].key = key
     /\ evald[k].stored # None}

\* The files cache::get may find under a key.  The workers of a layer run
\* at once: when a sibling has called cache::set for the key in this
\* layer, the read may come before that write (and find what the first
\* such write replaced), after it, or between fs::write's truncation and
\* its write (an empty file).
FilesAt(key) ==
  {EntryAt(pcache, key)}
    \cup (IF LayerWrites(key) = {} THEN {}
          ELSE {evald[CHOOSE k \in LayerWrites(key) :
                        \A m \in LayerWrites(key) : k <= m].replaced,
                CacheEntry("", 0)})

\* The same files at the time of the read: a file is at least as old as
\* it was when it was last seen.
SeenAt(key) ==
  (FilesAt(key) \cap {NoEntry})
    \cup UNION {{CacheEntry(e.data, g) : g \in e.age..MaxAge} :
                  e \in FilesAt(key) \ {NoEntry}}

\* What a call of eval_single may look at in the cache: nothing unless
\* the probe has a command and a ttl that parses.
Lookups(i) ==
  IF states[i].cmd # None /\ Ttl(states[i]).ok
    THEN SeenAt(probe_cache_key(states[i].name))
    ELSE {NoEntry}

\* What cache::get returned to a call that looked at the file `seen`.
Cached(i, seen) ==
  IF states[i].cmd # None /\ Ttl(states[i]).ok
    THEN cache_get(seen, Ttl(states[i]).secs)
    ELSE None

\* What the command may do: it is run only when there is one and the
\* cache gave nothing.
Runs(i, seen) ==
  IF states[i].cmd = None \/ Cached(i, seen) # None THEN {NoCmd}
  ELSE CmdOutcomes

\* What happened to a call from outside: whether the command was run,
\* what it did, and what the cache returned.
Outcome(i, seen, o) ==
  [ran |-> (states[i].cmd # None /\ Cached(i, seen) = None),
   started |-> o.started, status |-> o.status, stdout |-> o.stdout,
   cached |-> Cached(i, seen)]

\* One call of eval_single as the pass records it: the probe, the dep
\* results it was handed, its outcome and result, and its cache traffic
\* (the key, the file looked at, the text stored, the file replaced).
Worker(i, seen, o) ==
  [idx |-> i,
   dep_results |-> dep_results(i),
   outcome |-> Outcome(i, seen, o),
   result |-> eval_single(states[i], dep_results(i), Outcome(i, seen, o)),
   key |-> probe_cache_key(states[i].name),
   looked |-> (states[i].cmd # None /\ Ttl(states[i]).ok),
   seen |-> seen,
   stored |-> CacheStored(states[i], Outcome(i, seen, o)),
   replaced |-> EntryAt(pcache, probe_cache_key(states[i].name))]

\* cache::set: the file of the key is replaced (errors are ignored; the
\* directory is taken to be writable).
cache_set(c, w) ==
  IF w.stored = None THEN c
  ELSE (w.key :> CacheEntry(w.stored, 0)) @@ c

\* eval_single is entered before topo_sort has accepted the list.
EvalSingle_BeforeSort(i) ==
  /\ ppc \in {"eval", "err"}
  /\ i \in 1..Len(states)
  /\ i \notin Started
  /\ ppc = "eval" => (layer <= Len(layers) /\ i \in InLayer)
  /\ \E o \in (IF states[i].cmd = None THEN {NoCmd} ELSE CmdOutcomes) :
       /\ evald' = Append(evald,
                          [Worker(i, NoEntry, o) EXCEPT !.stored = None])
  /\ UNCHANGED << runnerVars, envVars, config_state, needed, states, ppc, layers,
                  layer, results, answer, pcache >>

\* The worker puts its result into the map itself, as soon as it has it.
EvalSingle_RecordsAtOnce(i) ==
  /\ ppc = "eval"
  /\ layer <= Len(layers)
  /\ i \in InLayer \ Started
  /\ \E seen \in Lookups(i) : \E o \in Runs(i, seen) :
       /\ evald' = Append(evald, Worker(i, seen, o))
       /\ pcache' = cache_set(pcache, Worker(i, seen, o))
       /\ results' = (states[i].name :> Worker(i, seen, o).result) @@ results
  /\ UNCHANGED << runnerVars, envVars, config_state, needed, states, ppc,
                  layers, layer, answer >>

\* eval_single(state, &dep_results) for one probe of the current layer
\* (inline for a layer of one, else on its own thread): dep_results holds
\* the deps found in the result map.
EvalSingle(i) ==
  /\ ppc = "eval"
  /\ layer <= Len(layers)
  /\ i \in InLayer \ Started
  /\ \E seen \in Lookups(i) : \E o \in Runs(i, seen) :
       /\ evald' = Append(evald, Worker(i, seen, o))
       /\ pcache' = cache_set(pcache, Worker(i, seen, o))
  /\ UNCHANGED << runnerVars, envVars, config_state, needed, states, ppc, layers,
                  layer, results, answer >>

EvalSingleStep == \E i \in 1..Len(states) : EvalSingle(i)

\* The result a layer leaves under a name: layer_results is inserted in
\* the layer's order, so the last probe of that name in the layer wins.
LayerResult(n) ==
  LET last == CHOOSE k \in 1..Len(layers[layer]) :
                /\ states[layers[layer][k]].name = n
                /\ layers[layer][k] \in Started
                /\ \A m \in (k + 1)..Len(layers[layer]) :
                     ~(states[layers[layer][m]].name = n
                       /\ layers[layer][m] \in Started)
      e == CHOOSE k \in 1..Len(evald) : evald[k].idx = layers[layer][last]
  IN evald[e].result

\* The layer's results are inserted without waiting for its threads.
LayerJoin_NoBarrier ==
  /\ ppc = "eval"
  /\ layer <= Len(layers)
  /\ results' =
       [n \in DOMAIN results \cup {states[i].name : i \in InLayer} |->
          IF \E k \in 1..Len(evald) :
               evald[k].idx \in InLayer /\ states[evald[k].idx].name = n
            THEN LayerResult(n)
            ELSE IF n \in DOMAIN results THEN results[n]
            ELSE [name |-> n, original |-> None, raw |-> "",
                  templates |-> EmptyMap]]
  /\ layer' = layer + 1
  /\ UNCHANGED << runnerVars, envVars, config_state, needed, states, ppc, layers,
                  evald, answer, pcache >>

\* Lines 288 and 304-308: every probe of the layer has returned and its
\* result is inserted under its name; the next layer starts.
LayerJoin ==
  /\ ppc = "eval"
  /\ layer <= Len(layers)
  /\ InLayer \subseteq Started
  /\ results' =
       [n \in DOMAIN results \cup {states[i].name : i \in InLayer} |->
          IF \E i \in InLayer : states[i].name = n THEN LayerResult(n)
          ELSE results[n]]
  /\ layer' = layer + 1
  /\ UNCHANGED << runnerVars, envVars, config_state, needed, states, ppc, layers,
                  evald, answer, pcache >>

\* Lines 313-316: eval_all returns Ok after the last layer.
EvalAllReturn ==
  /\ ppc = "eval"
  /\ layer > Len(layers)
  /\ ppc' = "done"
  /\ UNCHANGED << runnerVars, envVars, config_state, needed, states, layers, layer,
                  evald, results, answer, pcache >>

\* The queries of the `state` command: a probe name, alone or followed by
\* a dot and a variant.
Queries ==
  {[name |-> n, variant |-> v] :
     n \in {"a", "c", "x"}, v \in {None, "raw", "original", "t", "u"}}

\* state::run, lines 424-459, for one query and no operator: the probe's
\* result is looked up by name and the variant by get_variant; the value
\* is printed, or the command fails on an unknown probe or variant.
StateAnswer ==
  /\ pc = "state"
  /\ ppc = "done"
  /\ \E q \in Queries :
       LET v == IF q.name \in DOMAIN results
                  THEN get_variant(results[q.name], q.variant)
                  ELSE [ok |-> FALSE, value |-> None]
       IN /\ answer' = [query |-> q, ok |-> v.ok, value |-> v.value]
          /\ pc' = IF v.ok THEN "ok" ELSE "err"
  /\ UNCHANGED << mode, items, run, idx, counters, calls, pending, resolved,
                  sudoCalls, summary, fatal, world, rekeyed, envVars, config_state,
                  needed, states, ppc, layers, layer, evald, results,
                  pcache >>

\* The error of eval_states is returned from the run.
CollectStatesDone_Propagates ==
  /\ pc = "probes"
  /\ ppc \in {"done", "err"}
  /\ pc' = IF ppc = "err" THEN "err" ELSE "start"
  /\ fatal' = (ppc = "err")
  /\ UNCHANGED << mode, items, run, idx, counters, calls, pending, resolved,
                  sudoCalls, summary, world, rekeyed, probeVars, envVars >>

\* The items are built while the probe workers are still running.
CollectStatesDone_Early ==
  /\ pc = "probes"
  /\ pc' = "start"
  /\ UNCHANGED << mode, items, run, idx, counters, calls, pending, resolved,
                  sudoCalls, summary, fatal, world, rekeyed, probeVars, envVars >>

\* collect_state_items, lines 427-505: eval_states has returned;
\* unwrap_or_default() turns an Err into an empty map, the templates are
\* rendered and the items are built.
CollectStatesDone ==
  /\ pc = "probes"
  /\ ppc \in {"done", "err"}
  /\ pc' = "start"
  /\ UNCHANGED << mode, items, run, idx, counters, calls, pending, resolved,
                  sudoCalls, summary, fatal, world, rekeyed, probeVars, envVars >>

\* ------------------------------------------------------------ run_items
\* run_items on an empty list: prints "No items" and returns Ok.
RunItemsEmpty ==
  /\ pc = "start"
  /\ items = << >>
  /\ pc' = "ok"
  /\ UNCHANGED << mode, items, run, idx, counters, calls, pending, resolved,
                  sudoCalls, summary, fatal, world, rekeyed, probeVars, envVars >>

\* run_items dispatching to plan_all or check_all: the loop is entered.
EnterLoop ==
  /\ pc = "start"
  /\ items # << >>
  /\ mode \in {"Plan", "Check"}
  /\ pc' = "loop"
  /\ idx' = 1
  /\ UNCHANGED << mode, items, run, counters, calls, pending, resolved,
                  sudoCalls, summary, fatal, world, rekeyed, probeVars, envVars >>

\* ------------------------------------------------------------- plan_all
\* plan_all asking the provider for the state of the items it lists.
PlanItem_CallsCheck ==
  /\ pc = "loop" /\ mode = "Plan"
  /\ idx <= Len(items)
  /\ calls' = IF should_run(items[idx]) /\ RegistryGet(items[idx].kind)
                THEN Append(calls, Call("check", idx)) ELSE calls
  /\ idx' = idx + 1
  /\ UNCHANGED << mode, items, run, pc, counters, pending, resolved,
                  sudoCalls, summary, fatal, world, rekeyed, probeVars, envVars >>

\* One iteration of plan_all: the gate is evaluated and the item is
\* printed as skipped or as planned; no provider is looked up.
PlanItem ==
  /\ pc = "loop" /\ mode = "Plan"
  /\ idx <= Len(items)
  /\ idx' = idx + 1
  /\ UNCHANGED << mode, items, run, pc, counters, calls, pending, resolved,
                  sudoCalls, summary, fatal, world, rekeyed, probeVars, envVars >>

\* print_plan_summary(items.len())
PlanFinish ==
  /\ pc = "loop" /\ mode = "Plan"
  /\ idx > Len(items)
  /\ summary' = [kind |-> "plan", total |-> Len(items)]
  /\ pc' = "ok"
  /\ UNCHANGED << mode, items, run, idx, counters, calls, pending, resolved,
                  sudoCalls, fatal, world, rekeyed, probeVars, envVars >>

\* ------------------------------------------------------------ check_all
CheckSkip ==
  /\ pc = "loop" /\ mode = "Check"
  /\ idx <= Len(items)
  /\ ~should_run(items[idx])
  /\ skipped' = skipped + 1
  /\ idx' = idx + 1
  /\ UNCHANGED << mode, items, run, pc, changed, failed, issues, satisfied,
                  missing, calls, pending, resolved, sudoCalls, summary,
                  fatal, world, rekeyed, probeVars, envVars >>

\* An unregistered kind is counted as missing and the loop goes on.
CheckUnknown_Counts ==
  /\ pc = "loop" /\ mode = "Check"
  /\ idx <= Len(items)
  /\ should_run(items[idx])
  /\ ~RegistryGet(items[idx].kind)
  /\ missing' = missing + 1
  /\ idx' = idx + 1
  /\ UNCHANGED << mode, items, run, pc, changed, failed, skipped, issues,
                  satisfied, calls, pending, resolved, sudoCalls, summary,
                  fatal, world, rekeyed, probeVars, envVars >>

\* registry.get(kind) is None: `?` returns "Unknown provider".
CheckUnknown ==
  /\ pc = "loop" /\ mode = "Check"
  /\ idx <= Len(items)
  /\ should_run(items[idx])
  /\ ~RegistryGet(items[idx].kind)
  /\ pc' = "err"
  /\ fatal' = TRUE
  /\ UNCHANGED << mode, items, run, idx, counters, calls, pending, resolved,
                  sudoCalls, summary, world, rekeyed, probeVars, envVars >>

\* provider.check(item)? returns Err.
CheckErr ==
  /\ pc = "loop" /\ mode = "Check"
  /\ idx <= Len(items)
  /\ should_run(items[idx])
  /\ RegistryGet(items[idx].kind)
  /\ calls' = Append(calls, Call("check", idx))
  /\ pc' = "err"
  /\ fatal' = TRUE
  /\ UNCHANGED << mode, items, run, idx, counters, pending, resolved,
                  sudoCalls, summary, world, rekeyed, probeVars, envVars >>

\* check_all repairing what it finds missing.
CheckCount_Applies ==
  /\ pc = "loop" /\ mode = "Check"
  /\ idx <= Len(items)
  /\ should_run(items[idx])
  /\ RegistryGet(items[idx].kind)
  /\ IF CheckSatisfied(items[idx])
       THEN /\ satisfied' = satisfied + 1 /\ missing' = missing
            /\ calls' = Append(calls, Call("check", idx))
            /\ UNCHANGED << store, sat >>
       ELSE /\ missing' = missing + 1 /\ satisfied' = satisfied
            /\ calls' = calls \o << Call("check", idx), Call("apply_live", idx) >>
            /\ sat' = sat \cup {cache_item_id(items[idx])}
            /\ store' = update_cache(items[idx])
  /\ idx' = idx + 1
  /\ UNCHANGED << mode, items, run, pc, changed, failed, skipped, issues,
                  pending, resolved, sudoCalls, summary, fatal, installed,
                  isRoot, rekeyed, probeVars, envVars >>

\* provider.check(item) returns a CheckResult, which is counted.
CheckCount ==
  /\ pc = "loop" /\ mode = "Check"
  /\ idx <= Len(items)
  /\ should_run(items[idx])
  /\ RegistryGet(items[idx].kind)
  /\ calls' = Append(calls, Call("check", idx))
  /\ IF CheckSatisfied(items[idx])
       THEN satisfied' = satisfied + 1 /\ missing' = missing
       ELSE missing' = missing + 1 /\ satisfied' = satisfied
  /\ idx' = idx + 1
  /\ UNCHANGED << mode, items, run, pc, changed, failed, skipped, issues,
                  pending, resolved, sudoCalls, summary, fatal, world,
                  rekeyed, probeVars, envVars >>

\* print_check_summary(items.len() - skipped, satisfied, missing)
CheckFinish ==
  /\ pc = "loop" /\ mode = "Check"
  /\ idx > Len(items)
  /\ summary' = [kind |-> "check", total |-> Len(items) - skipped,
                 satisfied |-> satisfied, missing |-> missing]
  /\ pc' = "ok"
  /\ UNCHANGED << mode, items, run, idx, counters, calls, pending, resolved,
                  sudoCalls, fatal, world, rekeyed, probeVars, envVars >>

\* ------------------------------------------------------------ apply_all
\* apply_all, lines 108-116: collect_requirements, then resolve_requirements
\* when the collected list is not empty.
ApplyCollect ==
  /\ pc = "start" /\ mode = "Apply"
  /\ items # << >>
  /\ calls' = RequiresCalls(items, 1, {})
  /\ pending' = Dedupe(collect_requirements(items), {})
  /\ pc' = IF collect_requirements(items) = << >> THEN "sudo" ELSE "resolve"
  /\ UNCHANGED << mode, items, run, idx, counters, resolved, sudoCalls,
                  summary, fatal, world, rekeyed, probeVars, envVars >>

AfterSatisfy == IF Tail(pending) = << >> THEN "sudo" ELSE "resolve"

\* Requirement::satisfy when the binary is already resolvable: a no-op.
SatisfyPresent ==
  /\ pc = "resolve"
  /\ Head(pending).binary \in installed
  /\ resolved' = Append(resolved, Head(pending))
  /\ pending' = Tail(pending)
  /\ pc' = AfterSatisfy
  /\ UNCHANGED << mode, items, run, idx, counters, calls, sudoCalls, summary,
                  fatal, world, rekeyed, probeVars, envVars >>

\* Requirement::satisfy installing the binary, which is resolvable after.
SatisfyInstall ==
  /\ pc = "resolve"
  /\ Head(pending).binary \notin installed
  /\ resolved' = Append(resolved, Head(pending))
  /\ installed' = installed \cup {Head(pending).binary}
  /\ pending' = Tail(pending)
  /\ pc' = AfterSatisfy
  /\ UNCHANGED << mode, items, run, idx, counters, calls, sudoCalls, summary,
                  fatal, store, sat, isRoot, rekeyed, probeVars, envVars >>

\* Requirement::satisfy returning Ok from the file test of the
\* CargoBinstall branch (lines 150-153) while $PATH does not name the
\* directory: the binary is on disk and not resolvable.
SatisfyUnverified ==
  /\ pc = "resolve"
  /\ Head(pending).binary \notin installed
  /\ Head(pending).install = "CargoBinstall"
  /\ resolved' = Append(resolved, Head(pending))
  /\ pending' = Tail(pending)
  /\ pc' = AfterSatisfy
  /\ UNCHANGED << mode, items, run, idx, counters, calls, sudoCalls, summary,
                  fatal, world, rekeyed, probeVars, envVars >>

\* The Err of resolve_requirements is dropped: apply_all goes on to the
\* sudo step with the rest of the requirements unresolved.
SatisfyFail_GoesOn ==
  /\ pc = "resolve"
  /\ Head(pending).binary \notin installed
  /\ resolved' = Append(resolved, Head(pending))
  /\ pc' = "sudo"
  /\ UNCHANGED << mode, items, run, idx, counters, calls, pending, sudoCalls,
                  summary, fatal, world, rekeyed, probeVars, envVars >>

\* Requirement::satisfy returning Err (the installer failed, or the binary
\* is still not resolvable): resolve_requirements and apply_all return it.
SatisfyFail ==
  /\ pc = "resolve"
  /\ Head(pending).binary \notin installed
  /\ resolved' = Append(resolved, Head(pending))
  /\ pc' = "err"
  /\ fatal' = TRUE
  /\ UNCHANGED << mode, items, run, idx, counters, calls, pending, sudoCalls,
                  summary, world, rekeyed, probeVars, envVars >>

\* apply_all, lines 119-124, when any_needs_sudo is false.
SudoNotNeeded ==
  /\ pc = "sudo"
  /\ ~any_needs_sudo(items)
  /\ calls' = IF isRoot THEN calls ELSE calls \o NeedsSudoCalls(items, 1)
  /\ pc' = "loop"
  /\ idx' = 1
  /\ UNCHANGED << mode, items, run, counters, pending, resolved, sudoCalls,
                  summary, fatal, world, rekeyed, probeVars, envVars >>

\* `sudo -v` was spawned (its exit status is not looked at).
SudoPreAuth ==
  /\ pc = "sudo"
  /\ any_needs_sudo(items)
  /\ calls' = calls \o NeedsSudoCalls(items, 1)
  /\ sudoCalls' = sudoCalls + 1
  /\ pc' = "loop"
  /\ idx' = 1
  /\ UNCHANGED << mode, items, run, counters, pending, resolved, summary,
                  fatal, world, rekeyed, probeVars, envVars >>

\* `sudo -v` could not be spawned: "Failed to authenticate sudo".
SudoFail ==
  /\ pc = "sudo"
  /\ any_needs_sudo(items)
  /\ calls' = calls \o NeedsSudoCalls(items, 1)
  /\ sudoCalls' = sudoCalls + 1
  /\ pc' = "err"
  /\ fatal' = TRUE
  /\ UNCHANGED << mode, items, run, idx, counters, pending, resolved,
                  summary, world, rekeyed, probeVars, envVars >>

InApplyLoop == pc = "loop" /\ mode = "Apply" /\ idx <= Len(items)

\* Gate fails: skipped += 1, continue.
ApplySkip ==
  /\ InApplyLoop
  /\ ~should_run(items[idx])
  /\ skipped' = skipped + 1
  /\ idx' = idx + 1
  /\ UNCHANGED << mode, items, run, pc, changed, failed, issues, satisfied,
                  missing, calls, pending, resolved, sudoCalls, summary,
                  fatal, world, rekeyed, probeVars, envVars >>

\* registry.get(kind) is None: `?` returns "Unknown provider".
ApplyUnknown ==
  /\ InApplyLoop
  /\ should_run(items[idx])
  /\ ~RegistryGet(items[idx].kind)
  /\ pc' = "err"
  /\ fatal' = TRUE
  /\ UNCHANGED << mode, items, run, idx, counters, calls, pending, resolved,
                  sudoCalls, summary, world, rekeyed, probeVars, envVars >>

\* provider.check(item)? returns Err.
ApplyCheckErr ==
  /\ InApplyLoop
  /\ should_run(items[idx])
  /\ RegistryGet(items[idx].kind)
  /\ calls' = Append(calls, Call("check", idx))
  /\ pc' = "err"
  /\ fatal' = TRUE
  /\ UNCHANGED << mode, items, run, idx, counters, pending, resolved,
                  sudoCalls, summary, world, rekeyed, probeVars, envVars >>

\* The fingerprint is not consulted: a declared cache_key always re-applies.
SkipApply_IgnoresStore(item) ==
  /\ cache_item_id(item) \in sat
  /\ item.cache_key = None

\* A fresh fingerprint skips the item whatever check reports.
SkipApply_TrustsCache(item) ==
  \/ cache_item_id(item) \in sat /\ item.cache_key = None
  \/ is_cache_fresh(item)

\* Lines 145-151: Satisfied, and no cache_key or a fresh fingerprint.
SkipApply(item) ==
  /\ CheckSatisfied(item)
  /\ (item.cache_key = None \/ is_cache_fresh(item))

\* check returned a result and the item got past the gate and the lookup.
Checked == InApplyLoop /\ should_run(items[idx]) /\ RegistryGet(items[idx].kind)

\* print_apply_skip, continue.
ApplyAlreadySatisfied ==
  /\ Checked
  /\ SkipApply(items[idx])
  /\ calls' = Append(calls, Call("check", idx))
  /\ idx' = idx + 1
  /\ UNCHANGED << mode, items, run, pc, counters, pending, resolved,
                  sudoCalls, summary, fatal, world, rekeyed, probeVars, envVars >>

\* The check-only test is left out of the loop: the item is applied.
ApplyIssue_Applies ==
  /\ InApplyLoop /\ should_run(items[idx]) /\ RegistryGet(items[idx].kind)
  /\ ~(/\ cache_item_id(items[idx]) \in sat
       /\ (items[idx].cache_key = None \/ is_cache_fresh(items[idx])))
  /\ is_check_only(items[idx].kind)
  /\ calls' = calls \o << Call("check", idx), Call("apply_live", idx) >>
  /\ sat' = sat \cup {cache_item_id(items[idx])}
  /\ store' = update_cache(items[idx])
  /\ changed' = changed + 1
  /\ idx' = idx + 1
  /\ UNCHANGED << mode, items, run, pc, failed, skipped, issues, satisfied,
                  missing, pending, resolved, sudoCalls, summary, fatal,
                  installed, isRoot, rekeyed, probeVars, envVars >>

\* Lines 158-162: a check-only provider: issues += 1, continue.
ApplyIssue ==
  /\ Checked
  /\ ~SkipApply(items[idx])
  /\ is_check_only(items[idx].kind)
  /\ calls' = Append(calls, Call("check", idx))
  /\ issues' = issues + 1
  /\ idx' = idx + 1
  /\ UNCHANGED << mode, items, run, pc, changed, failed, skipped, satisfied,
                  missing, pending, resolved, sudoCalls, summary, fatal,
                  world, rekeyed, probeVars, envVars >>

\* check is called again after a successful apply_live.
ApplyChanged_Rechecks ==
  /\ InApplyLoop /\ should_run(items[idx]) /\ RegistryGet(items[idx].kind)
  /\ ~SkipApply(items[idx])
  /\ ~is_check_only(items[idx].kind)
  /\ calls' = calls \o << Call("check", idx), Call("apply_live", idx),
                          Call("check", idx) >>
  /\ sat' = sat \cup {cache_item_id(items[idx])}
  /\ store' = update_cache(items[idx])
  /\ changed' = changed + 1
  /\ idx' = idx + 1
  /\ UNCHANGED << mode, items, run, pc, failed, skipped, issues, satisfied,
                  missing, pending, resolved, sudoCalls, summary, fatal,
                  installed, isRoot, rekeyed, probeVars, envVars >>

\* Lines 166-171: apply_live returns Ok: update_cache, changed += 1.
ApplyChanged ==
  /\ Checked
  /\ ~SkipApply(items[idx])
  /\ ~is_check_only(items[idx].kind)
  /\ calls' = calls \o << Call("check", idx), Call("apply_live", idx) >>
  /\ sat' = sat \cup {cache_item_id(items[idx])}
  /\ store' = update_cache(items[idx])
  /\ changed' = changed + 1
  /\ idx' = idx + 1
  /\ UNCHANGED << mode, items, run, pc, failed, skipped, issues, satisfied,
                  missing, pending, resolved, sudoCalls, summary, fatal,
                  installed, isRoot, rekeyed, probeVars, envVars >>

\* The fingerprint is written whether apply_live succeeded or not.
ApplyFailed_UpdatesCache ==
  /\ InApplyLoop /\ should_run(items[idx]) /\ RegistryGet(items[idx].kind)
  /\ ~SkipApply(items[idx])
  /\ ~is_check_only(items[idx].kind)
  /\ calls' = calls \o << Call("check", idx), Call("apply_live", idx) >>
  /\ store' = update_cache(items[idx])
  /\ failed' = failed + 1
  /\ idx' = idx + 1
  /\ UNCHANGED << mode, items, run, pc, changed, skipped, issues, satisfied,
                  missing, pending, resolved, sudoCalls, summary, fatal,
                  sat, installed, isRoot, rekeyed, probeVars, envVars >>

\* apply_live(...)? : the first failed apply ends the run.
ApplyFailed_Bails ==
  /\ InApplyLoop /\ should_run(items[idx]) /\ RegistryGet(items[idx].kind)
  /\ ~SkipApply(items[idx])
  /\ ~is_check_only(items[idx].kind)
  /\ calls' = calls \o << Call("check", idx), Call("apply_live", idx) >>
  /\ failed' = failed + 1
  /\ pc' = "err"
  /\ UNCHANGED << mode, items, run, idx, changed, skipped, issues, satisfied,
                  missing, pending, resolved, sudoCalls, summary, fatal,
                  world, rekeyed, probeVars, envVars >>

\* Lines 172-175: apply_live returns Err: failed += 1, the loop goes on.
ApplyFailed ==
  /\ Checked
  /\ ~SkipApply(items[idx])
  /\ ~is_check_only(items[idx].kind)
  /\ calls' = calls \o << Call("check", idx), Call("apply_live", idx) >>
  /\ failed' = failed + 1
  /\ idx' = idx + 1
  /\ UNCHANGED << mode, items, run, pc, changed, skipped, issues, satisfied,
                  missing, pending, resolved, sudoCalls, summary, fatal,
                  world, rekeyed, probeVars, envVars >>

\* The summary's total counts the gated-out items too.
ApplyFinish_TotalAll ==
  /\ pc = "loop" /\ mode = "Apply"
  /\ idx > Len(items)
  /\ summary' = [kind |-> "apply", total |-> Len(items),
                 changed |-> changed, failed |-> failed, issues |-> issues]
  /\ pc' = IF failed > 0 THEN "err" ELSE "ok"
  /\ UNCHANGED << mode, items, run, idx, counters, calls, pending, resolved,
                  sudoCalls, fatal, world, rekeyed, probeVars, envVars >>

\* The bail on failed > 0 is left out: the run returns Ok.
ApplyFinish_AlwaysOk ==
  /\ pc = "loop" /\ mode = "Apply"
  /\ idx > Len(items)
  /\ summary' = [kind |-> "apply", total |-> Len(items) - skipped,
                 changed |-> changed, failed |-> failed, issues |-> issues]
  /\ pc' = "ok"
  /\ UNCHANGED << mode, items, run, idx, counters, calls, pending, resolved,
                  sudoCalls, fatal, world, rekeyed, probeVars, envVars >>

\* The bail on failed > 0 comes before print_summary.
ApplyFinish_BailsFirst ==
  /\ pc = "loop" /\ mode = "Apply"
  /\ idx > Len(items)
  /\ summary' = IF failed > 0 THEN NoSummary
                ELSE [kind |-> "apply", total |-> Len(items) - skipped,
                      changed |-> changed, failed |-> failed, issues |-> issues]
  /\ pc' = IF failed > 0 THEN "err" ELSE "ok"
  /\ UNCHANGED << mode, items, run, idx, counters, calls, pending, resolved,
                  sudoCalls, fatal, world, rekeyed, probeVars, envVars >>

\* Lines 179-185: print_summary, then bail when failed > 0.
ApplyFinish ==
  /\ pc = "loop" /\ mode = "Apply"
  /\ idx > Len(items)
  /\ summary' = [kind |-> "apply", total |-> Len(items) - skipped,
                 changed |-> changed, failed |-> failed, issues |-> issues]
  /\ pc' = IF failed > 0 THEN "err" ELSE "ok"
  /\ UNCHANGED << mode, items, run, idx, counters, calls, pending, resolved,
                  sudoCalls, fatal, world, rekeyed, probeVars, envVars >>

\* ---------------------------------------------------------------- runs
\* After an Apply run that returned Ok, Apply is started again on the same
\* item list; the machine and the fingerprint store are as that run left
\* them.
NextRun ==
  /\ mode = "Apply"
  /\ pc = "ok"
  /\ run < MaxRuns
  /\ run' = run + 1
  /\ pc' = "collect"
  /\ idx' = 1
  /\ changed' = 0 /\ failed' = 0 /\ skipped' = 0 /\ issues' = 0
  /\ satisfied' = 0 /\ missing' = 0
  /\ calls' = << >>
  /\ pending' = << >>
  /\ resolved' = << >>
  /\ sudoCalls' = 0
  /\ summary' = NoSummary
  /\ fatal' = FALSE
  /\ UNCHANGED << mode, items, world, rekeyed, probeVars, envVars >>

Next ==
  \/ CollectNoStates \/ CollectEvalStates \/ CollectStatesDone
  \/ EvalSingleStep \/ LayerJoin \/ EvalAllReturn
  \/ RunItemsEmpty \/ EnterLoop
  \/ PlanItem \/ PlanFinish
  \/ CheckSkip \/ CheckUnknown \/ CheckErr \/ CheckCount \/ CheckFinish
  \/ ApplyCollect
  \/ SatisfyPresent \/ SatisfyInstall \/ SatisfyUnverified \/ SatisfyFail
  \/ SudoNotNeeded \/ SudoPreAuth \/ SudoFail
  \/ ApplySkip \/ ApplyUnknown \/ ApplyCheckErr \/ ApplyAlreadySatisfied
  \/ ApplyIssue \/ ApplyChanged \/ ApplyFailed \/ ApplyFinish
  \/ NextRun

Spec == Init /\ [][Next]_vars

\* The run is scheduled until it returns: every call is assumed to return.
FairSpec == Spec /\ WF_vars(Next)

\* ------------------------------------------------- the `state` command
\* The probe cache an earlier run may have left: nothing, or a file for
\* probe "a" of some age.
InitCaches ==
  {EmptyMap}
    \cup {(probe_cache_key("a") :> CacheEntry("Linux", g)) : g \in 0..MaxAge}

\* state::run over a probe list: the runner is not involved.
ProbeInit ==
  /\ mode = "Plan"
  /\ items = << >>
  /\ run = 1
  /\ pc = "state"
  /\ idx = 1
  /\ changed = 0 /\ failed = 0 /\ skipped = 0 /\ issues = 0
  /\ satisfied = 0 /\ missing = 0
  /\ calls = << >>
  /\ pending = << >>
  /\ resolved = << >>
  /\ sudoCalls = 0
  /\ summary = NoSummary
  /\ fatal = FALSE
  /\ store = [id \in StoreIds |-> None]
  /\ sat = {}
  /\ installed = Binaries
  /\ isRoot = FALSE
  /\ rekeyed = {}
  /\ config_state \in ProbeLists
  /\ needed = {}
  /\ states = << >>
  /\ ppc = "idle"
  /\ layers = << >>
  /\ layer = 1
  /\ evald = << >>
  /\ results = EmptyMap
  /\ answer = NoAnswer
  /\ pcache \in (IF config_state \in CacheLists THEN InitCaches
                 ELSE {EmptyMap})
  /\ req = Req("cargo", "Rustup")
  /\ env_home = Home
  /\ env_path = PathOf(<< "/usr/bin" >>)
  /\ files = {}
  /\ sres = "none"

ProbeNext ==
  StateRun \/ EvalSingleStep \/ LayerJoin \/ EvalAllReturn \/ StateAnswer

ProbeSpec == ProbeInit /\ [][ProbeNext]_vars

\* ------------------------------------------- one call of satisfy()
\* Requirement::satisfy on one requirement, in a process environment: the
\* runner and the probes are not involved.
SatisfyInit ==
  /\ mode = "Apply"
  /\ items = << >>
  /\ run = 1
  /\ pc = "satisfy"
  /\ idx = 1
  /\ changed = 0 /\ failed = 0 /\ skipped = 0 /\ issues = 0
  /\ satisfied = 0 /\ missing = 0
  /\ calls = << >>
  /\ pending = << >>
  /\ resolved = << >>
  /\ sudoCalls = 0
  /\ summary = NoSummary
  /\ fatal = FALSE
  /\ store = [id \in StoreIds |-> None]
  /\ sat = {}
  /\ installed = {}
  /\ isRoot = FALSE
  /\ rekeyed = {}
  /\ config_state = << >>
  /\ needed = {}
  /\ states = << >>
  /\ ppc = "idle"
  /\ layers = << >>
  /\ layer = 1
  /\ evald = << >>
  /\ results = EmptyMap
  /\ answer = NoAnswer
  /\ pcache = EmptyMap
  /\ req \in Requirements
  /\ env_home \in {None, Home}
  /\ env_path \in Paths
  /\ files \in {{}} \cup {{<< d, req.binary >>} : d \in InstallDirs}
  /\ sres = "none"

\* req.satisfy(), with what the installer did chosen by the environment.
SatisfyCall ==
  /\ pc = "satisfy"
  /\ sres = "none"
  /\ \E outcome \in InstallOutcomes :
       LET r == satisfy(req, env_home, env_path, files, outcome)
       IN /\ sres' = r.res
          /\ env_path' = r.path
          /\ files' = r.files
  /\ UNCHANGED << runnerVars, probeVars, req, env_home >>

SatisfySpec == SatisfyInit /\ [][SatisfyCall]_vars

\* ================================================================ claims
\* The item's gate predicate fails.
GatedOut(i) == items[i].run_if = "false"

\* The provider calls a step adds to the log.
NewCalls ==
  IF Len(calls') >= Len(calls)
    THEN {calls'[k] : k \in (Len(calls) + 1)..Len(calls')}
    ELSE {}

Ended == pc \in {"ok", "err"}

\* C1: in Plan mode no provider method is called for any item, gated out or
\* not; no requirement is collected or resolved, no elevation is asked for,
\* and the fingerprint store and the machine are left as they were.
C1_PlanCallsNoProvider ==
  [][mode = "Plan" =>
       /\ calls' = << >>
       /\ pending' = << >> /\ resolved' = << >>
       /\ sudoCalls' = 0
       /\ store' = store /\ sat' = sat /\ installed' = installed]_vars

\* A finished Plan run over a list with a gated-out item and one that is not.
C1_Witness ==
  /\ mode = "Plan" /\ pc = "ok" /\ summary.kind # "none"
  /\ \E i, j \in 1..Len(items) : GatedOut(i) /\ ~GatedOut(j)

\* C2: in Apply mode, when the machine reports the item Satisfied and the
\* item declares no cache_key or the stored fingerprint equals its
\* cache_key, the step that processes the item does not call apply_live;
\* apply_live is only ever called for the item being processed, and the
\* loop never goes back to an item.
C2_CacheSkip ==
  [][mode = "Apply" =>
       /\ \A c \in NewCalls : c.op = "apply_live" => (pc = "loop" /\ c.item = idx)
       /\ (pc = "loop" /\ pc' = "loop") => idx' = idx + 1
       /\ ( /\ pc = "loop" /\ idx <= Len(items)
            /\ cache_item_id(items[idx]) \in sat
            /\ \/ items[idx].cache_key = None
               \/ store[cache_item_id(items[idx])] = items[idx].cache_key )
          => \A c \in NewCalls : c.op # "apply_live"]_vars

\* An item with a fresh fingerprint was checked and passed over.
C2_Witness ==
  /\ mode = "Apply" /\ pc = "loop" /\ idx > 1
  /\ items[idx - 1].cache_key # None
  /\ store[cache_item_id(items[idx - 1])] = items[idx - 1].cache_key
  /\ calls # << >>
  /\ calls[Len(calls)] = Call("check", idx - 1)
  /\ changed = 0 /\ issues = 0

\* C3: a second Apply run on the same list, after a run that returned Ok
\* and with nothing changed on the machine in between, counts no item as
\* changed.
C3_SecondRunChangesNothing ==
  (mode = "Apply" /\ run > 1) => changed = 0

\* C4: an item that starts Satisfied with another key's fingerprint in the
\* store (the first of its kind and key in the list, not gated out, of a
\* provider that applies) has apply_live called for it in the first run,
\* after which the store holds its cache_key, and in no later run.
C4_ReappliedOnce ==
  \A i \in rekeyed :
    ( /\ ~GatedOut(i)
      /\ RegistryGet(items[i].kind) /\ ~is_check_only(items[i].kind)
      /\ \A j \in 1..(i - 1) : cache_item_id(items[j]) # cache_item_id(items[i]) )
    => /\ (mode = "Apply" /\ run = 1 /\ pc = "loop" /\ idx = i + 1 /\ failed = 0)
            => /\ calls # << >>
               /\ calls[Len(calls)] = Call("apply_live", i)
               /\ store[cache_item_id(items[i])] = items[i].cache_key
       /\ (mode = "Apply" /\ run > 1)
            => \A k \in 1..Len(calls) : calls[k] # Call("apply_live", i)

C6_GatedOutIsOnlySkipped ==
  [][(mode = "Check" \/ mode = "Apply") =>
       /\ \A c \in NewCalls :
            c.op \in {"check", "apply_live"} => ~GatedOut(c.item)
       /\ (pc = "loop" /\ idx <= Len(items) /\ GatedOut(idx))
            => /\ skipped' = skipped + 1
               /\ idx' = idx + 1
               /\ UNCHANGED << changed, failed, issues, satisfied, missing,
                               store, sat >>
               /\ calls' = calls]_vars

\* An Apply run that skipped one item and changed another.
C6_Witness ==
  /\ mode = "Apply" /\ summary.kind # "none"
  /\ skipped = 1 /\ changed = 1
  /\ GatedOut(1)

\* C7: in Apply mode, when every item of a kind is gated out, no provider
\* call is made on behalf of those items, none of the kind's requirements
\* is resolved, and elevation is asked for only if an item that is not
\* gated out needs it.
C7_GatedKindIsUntouched ==
  mode = "Apply" =>
    \A i \in 1..Len(items) :
      (\A j \in 1..Len(items) : items[j].kind = items[i].kind => GatedOut(j))
      => /\ \A k \in 1..Len(calls) : calls[k].item # i
         /\ \A r \in 1..Len(resolved) :
              \A n \in 1..Len(requires(items[i].kind)) :
                resolved[r] # requires(items[i].kind)[n]
         /\ sudoCalls > 0
              => \E j \in 1..Len(items) :
                   ~GatedOut(j) /\ needs_sudo(items[j].kind)

\* C8: in Check mode the only provider method called is check; nothing is
\* collected, resolved or elevated, and the fingerprint store and the
\* machine are left as they were.
C8_CheckModeOnlyChecks ==
  [][mode = "Check" =>
       /\ \A k \in 1..Len(calls') : calls'[k].op = "check"
       /\ pending' = << >> /\ resolved' = << >>
       /\ sudoCalls' = 0
       /\ store' = store /\ sat' = sat /\ installed' = installed]_vars

\* A finished Check run that found an item missing and an item satisfied.
C8_Witness ==
  /\ mode = "Check" /\ pc = "ok" /\ summary.kind # "none"
  /\ summary.missing >= 1 /\ summary.satisfied >= 1

\* C9 as stated: an Apply run returns an error exactly when failed > 0.
C9_ErrIffFailed ==
  (mode = "Apply" /\ Ended) => ((pc = "err") <=> (failed > 0))

\* C9, amended: an Apply run returns an error exactly when failed > 0 or a
\* fatal error (a requirement that cannot be resolved, sudo that cannot be
\* started, an unregistered kind, a check that returns Err) aborted it
\* before the summary; a run that prints the summary returns an error
\* exactly when the summary's failed count is positive.
C9_ErrIffFailedOrFatal ==
  (mode = "Apply" /\ Ended) =>
    /\ (pc = "err") <=> (failed > 0 \/ fatal)
    /\ fatal => summary = NoSummary
    /\ (~fatal /\ items # << >>)
         => /\ summary.kind # "none"
            /\ summary.failed = failed
            /\ (pc = "err") <=> (summary.failed > 0)

\* An Apply run aborted by a fatal error after it had changed an item.
C9_Witness ==
  /\ mode = "Apply" /\ pc = "err"
  /\ fatal /\ failed = 0 /\ changed > 0

RequiresCount(kind) ==
  Cardinality({k \in 1..Len(calls) :
                 calls[k].op = "requires" /\ items[calls[k].item].kind = kind})

\* Number of satisfy() calls logged for a requirement.
ResolvedCount(r) == Cardinality({k \in 1..Len(resolved) : resolved[k] = r})

\* Probe i lists a dep that resolves to probe j.
DepPairs(ps) ==
  {p \in (1..Len(ps)) \X (1..Len(ps)) :
     \E k \in 1..Len(ps[p[1]].deps) :
       name_to_idx(ps, ps[p[1]].deps[k]) = p[2]}

\* Transitive closure of a relation.
RECURSIVE Closure(_)
Closure(R) ==
  LET step == R \cup {<< x[1][1], x[2][2] >> :
                        x \in {y \in R \X R : y[1][2] = y[2][1]}}
  IN IF step = R THEN R ELSE Closure(step)

\* The dependency graph has a cycle (a self-dependency included).
HasCycle(ps) == \E p \in Closure(DepPairs(ps)) : p[1] = p[2]

\* The layer topo_sort put probe i in.
LayerOf(i) ==
  CHOOSE l \in 1..Len(layers) : \E k \in 1..Len(layers[l]) : layers[l][k] = i

\* C11: in Apply mode, a run over a list that holds an item of an
\* unregistered kind calls no apply_live, counts nothing as changed,
\* installs no requirement and writes no fingerprint.
C11_UnknownKindNoMutation ==
  [][(mode = "Apply" /\ \E i \in 1..Len(items) : ~RegistryGet(items[i].kind))
       => /\ \A c \in NewCalls : c.op # "apply_live"
          /\ changed' = 0
          /\ installed' = installed
          /\ store' = store]_vars

\* C12: in Apply mode, once the probe pass of collect_state_items has
\* failed (unknown dep or cycle), the run is over with an error: it does
\* not go on to run_items, no apply_live is called and nothing is changed.
C12_ProbeErrorAborts ==
  (mode = "Apply" /\ ppc = "err")
    => /\ pc \in {"probes", "err"}
       /\ \A k \in 1..Len(calls) : calls[k].op # "apply_live"
       /\ changed = 0

\* C13: no step calls apply or apply_live for an item of a check-only
\* provider; in Apply mode the step that processes a check-only item whose
\* check reports Missing adds one to issues, leaves changed, failed and the
\* store alone and stays in the loop; a run with no failed item and no
\* fatal error returns Ok whatever the number of issues.
C13_CheckOnlyNeverApplied ==
  /\ [][/\ \A c \in NewCalls :
             c.op \in {"apply", "apply_live"}
               => ~is_check_only(items[c.item].kind)
        /\ ( /\ mode = "Apply" /\ pc = "loop" /\ idx <= Len(items)
             /\ is_check_only(items[idx].kind)
             /\ should_run(items[idx])
             /\ cache_item_id(items[idx]) \notin sat
             /\ idx' = idx + 1 )
           => /\ issues' = issues + 1
              /\ UNCHANGED << changed, failed, fatal, store, sat >>
              /\ pc' = "loop"]_vars
  /\ []((mode = "Apply" /\ Ended /\ failed = 0 /\ ~fatal) => pc = "ok")

\* An Apply run that reported an issue, changed nothing and returned Ok.
C13_Witness ==
  /\ mode = "Apply" /\ pc = "ok"
  /\ summary.kind = "apply" /\ summary.issues >= 1
  /\ summary.changed = 0 /\ summary.failed = 0

C15_DriftIsAuthoritative ==
  [][( /\ mode = "Apply" /\ pc = "loop" /\ idx <= Len(items)
       /\ should_run(items[idx])
       /\ RegistryGet(items[idx].kind)
       /\ ~is_check_only(items[idx].kind)
       /\ cache_item_id(items[idx]) \notin sat
       /\ idx' = idx + 1 )
     => Call("apply_live", idx) \in NewCalls]_vars

\* The fingerprint of the only item was fresh, its check reported Missing
\* and apply_live was called (and failed, so store and machine are as
\* they were).
C15_Witness ==
  /\ mode = "Apply" /\ run = 1 /\ Len(items) = 1 /\ idx = 2
  /\ items[1].cache_key # None
  /\ store[cache_item_id(items[1])] = items[1].cache_key
  /\ cache_item_id(items[1]) \notin sat
  /\ failed = 1
  /\ calls[Len(calls)] = Call("apply_live", 1)

\* C16: in an Apply run requires() is called once for every registered
\* kind in the list, however many items share it; no requirement is
\* resolved twice; the requirements are resolved in the order they were
\* collected; once resolution is over every requirement of every kind in
\* the list was resolved exactly once; and a collected list in which every
\* requirement is declared a second time resolves to the same list.
C16_RequirementDedup ==
  mode = "Apply" =>
    /\ \A i \in 1..Len(items) :
         RegistryGet(items[i].kind)
           => RequiresCount(items[i].kind) =
                IF pc \in {"collect", "probes", "start"} THEN 0 ELSE 1
    /\ \A k \in 1..Len(resolved) :
         /\ ResolvedCount(resolved[k]) = 1
         /\ resolved[k] = collect_requirements(items)[k]
    /\ (pc \in {"sudo", "loop", "ok"} \/ (pc = "err" /\ pending = << >>))
         => \A i \in 1..Len(items) :
              RegistryGet(items[i].kind)
                => \A n \in 1..Len(requires(items[i].kind)) :
                     ResolvedCount(requires(items[i].kind)[n]) = 1
    /\ Dedupe(collect_requirements(items) \o collect_requirements(items), {})
         = collect_requirements(items)

\* Two items of the cargo kind, and cargo's two requirements resolved.
C16_Witness ==
  /\ mode = "Apply" /\ pc = "loop" /\ Len(items) = 2
  /\ items[1].kind = "package.cargo" /\ items[2].kind = "package.cargo"
  /\ Len(resolved) = 2

\* C17: a satisfy() that fails ends the Apply run with an error at once:
\* the step changes neither the store nor the machine nor the call log;
\* the failed requirement is the last one attempted; no item was looked
\* at, sudo was not asked for and no summary was printed; and the sudo
\* step and the item loop are only ever reached with every collected
\* requirement resolved.
C17_ResolveFailureAborts ==
  /\ [][(mode = "Apply" /\ pc = "resolve" /\ pc' = "err")
          => /\ fatal'
             /\ UNCHANGED << pending, store, sat, installed, calls >>]_vars
  /\ []((mode = "Apply" /\ pc = "err" /\ pending # << >>)
          => /\ resolved # << >>
             /\ resolved[Len(resolved)] = Head(pending)
             /\ \A k \in 1..Len(calls) : calls[k].op = "requires"
             /\ idx = 1
             /\ changed = 0 /\ failed = 0 /\ skipped = 0 /\ issues = 0
             /\ sudoCalls = 0
             /\ summary = NoSummary)
  /\ []((mode = "Apply" /\ pc \in {"sudo", "loop", "ok"})
          => /\ pending = << >>
             /\ resolved = Dedupe(collect_requirements(items), {}))

\* The first of two requirements failed; the second was never attempted.
C17_Witness ==
  /\ mode = "Apply" /\ pc = "err" /\ fatal
  /\ Len(pending) = 2 /\ Len(resolved) = 1
  /\ items # << >>

\* C18: for a probe list whose deps all name probes of the list, the pass
\* fails exactly when the dependency graph has a cycle; otherwise the
\* layers hold every probe exactly once.
C18_CycleIffError ==
  (ppc # "idle" /\ DepsKnown(states)) =>
    /\ (ppc = "err") <=> HasCycle(states)
    /\ ppc # "err"
         => \A i \in 1..Len(states) :
              Cardinality({p \in (1..Len(layers)) \X (1..Len(states)) :
                             /\ p[2] <= Len(layers[p[1]])
                             /\ layers[p[1]][p[2]] = i}) = 1

\* Three probes, one of them without deps, and a cycle among the others.
C18_Witness ==
  /\ ppc = "err" /\ Len(states) = 3 /\ DepsKnown(states)
  /\ \E i \in 1..3 : states[i].deps = << >>
  /\ \A i \in 1..3 : \A k \in 1..Len(states[i].deps) :
       states[i].deps[k] # states[i].name

\* C19: a pass over a probe list with an unknown dep or a cycle ends in
\* the error without a single eval_single call (no probe command is run,
\* no probe cache entry is read or written).
C19_NoEvalOnStructuralError ==
  (ppc # "idle" /\ (~DepsKnown(states) \/ HasCycle(states)))
    => /\ ppc = "err"
       /\ evald = << >>
       /\ DOMAIN results = {}

\* A failed pass over a list with an unknown dep and a probe with no deps.
C19_Witness ==
  /\ ppc = "err" /\ pc = "err" /\ Len(states) >= 2
  /\ ~DepsKnown(states)
  /\ \E i \in 1..Len(states) : states[i].deps = << >>

\* C20: in a pass over an acyclic list every probe is in a strictly later
\* layer than each probe it depends on, directly or transitively; and
\* when eval_single is called for a probe, the result map holds every dep
\* it lists, and eval_single has already been called for the probe each
\* dep resolves to.
C20_DepsBeforeDependents ==
  ppc \in {"eval", "done"} =>
    /\ \A p \in Closure(DepPairs(states)) : LayerOf(p[1]) > LayerOf(p[2])
    /\ \A k \in 1..Len(evald) :
         /\ DOMAIN evald[k].dep_results =
              {states[evald[k].idx].deps[m] :
                 m \in 1..Len(states[evald[k].idx].deps)}
         /\ \A m \in 1..Len(states[evald[k].idx].deps) :
              \E e \in 1..(k - 1) :
                evald[e].idx =
                  name_to_idx(states, states[evald[k].idx].deps[m])

\* A finished pass over a chain of three probes.
C20_Witness ==
  /\ ppc = "done" /\ Len(layers) = 3 /\ Len(evald) = 3
  /\ \E i \in 1..3 : Len(states[i].deps) = 2

\* The check and apply_live calls of the run, in order.
LoopCalls == SelectSeq(calls, LAMBDA c : c.op \in {"check", "apply_live"})

\* How many times op was called for item i in this run.
CallCount(op, i) ==
  Cardinality({k \in 1..Len(calls) : calls[k] = Call(op, i)})

\* The loop is at an item whose gate passes and whose kind is unregistered.
AtUnknownKind ==
  /\ pc = "loop" /\ idx <= Len(items)
  /\ should_run(items[idx])
  /\ ~RegistryGet(items[idx].kind)

C26_SequentialOncePerItem ==
  (mode = "Apply" /\ pc \in {"loop", "ok", "err"}) =>
    /\ \A k \in 1..(Len(LoopCalls) - 1) :
         /\ LoopCalls[k].item <= LoopCalls[k + 1].item
         /\ LoopCalls[k].op = "apply_live"
              => LoopCalls[k].item < LoopCalls[k + 1].item
    /\ \A k \in 1..Len(LoopCalls) :
         LoopCalls[k].op = "apply_live"
           => k > 1 /\ LoopCalls[k - 1] = Call("check", LoopCalls[k].item)
    /\ \A i \in 1..Len(items) :
         /\ CallCount("apply_live", i) <= 1
         /\ i < idx => CallCount("check", i) = IF should_run(items[i])
                                                 THEN 1 ELSE 0
         /\ i > idx => CallCount("check", i) + CallCount("apply_live", i) = 0
         /\ i = idx => CallCount("check", i) <= 1

\* A finished Apply run that applied both of its two items.
C26_Witness ==
  /\ mode = "Apply" /\ pc \in {"ok", "err"} /\ summary # NoSummary
  /\ Len(items) = 2
  /\ CallCount("apply_live", 1) = 1 /\ CallCount("apply_live", 2) = 1

\* C27: when the Apply loop has completed and the summary is printed,
\* skipped counts the gated-out items, changed + failed the apply_live
\* calls and issues only checked items that were not applied, so each
\* item is in one outcome: skipped + changed + failed + issues is at most
\* the number of items, and the summary's total is the number of items
\* minus skipped.
C27_OutcomesPartition ==
  (summary # NoSummary /\ summary.kind = "apply") =>
    /\ skipped = Cardinality({i \in 1..Len(items) : ~should_run(items[i])})
    /\ changed + failed =
         Cardinality({i \in 1..Len(items) : CallCount("apply_live", i) = 1})
    /\ issues <= Cardinality({i \in 1..Len(items) :
                                /\ CallCount("check", i) = 1
                                /\ CallCount("apply_live", i) = 0})
    /\ skipped + changed + failed + issues <= Len(items)
    /\ summary.total = Len(items) - skipped
    /\ summary.total = Cardinality({i \in 1..Len(items) :
                                      CallCount("check", i) = 1})

\* A summary over two items, one gated out and one whose apply failed.
C27_Witness ==
  /\ summary # NoSummary /\ summary.kind = "apply"
  /\ Len(items) = 2 /\ skipped = 1 /\ failed = 1 /\ summary.total = 1

\* C28: a step changes the fingerprint store only when it is the
\* successful apply_live of an item that declares a cache_key (check and
\* apply_live called, changed incremented), and then only that item's
\* entry changes, to the item's cache_key; a step that counts the item as
\* skipped, failed or issue, or passes it as already satisfied, leaves
\* the store as it was.
C28_StoreWrittenOnSuccessOnly ==
  [][/\ store' # store =>
          /\ Checked
          /\ items[idx].cache_key # None
          /\ calls' = calls \o << Call("check", idx), Call("apply_live", idx) >>
          /\ changed' = changed + 1
          /\ store' = [store EXCEPT ![cache_item_id(items[idx])] =
                                       items[idx].cache_key]
     /\ (failed' # failed \/ skipped' # skipped \/ issues' # issues
           \/ (InApplyLoop /\ idx' = idx + 1 /\ changed' = changed))
          => store' = store
     /\ (InApplyLoop /\ changed' = changed + 1 /\ items[idx].cache_key # None)
          => store'[cache_item_id(items[idx])] = items[idx].cache_key]_vars

\* A keyed item whose apply_live failed in a run that then applied
\* another keyed item: the first keeps no fingerprint, the second has its
\* cache_key stored.
C28_Witness ==
  /\ mode = "Apply" /\ Len(items) = 2 /\ idx = 3
  /\ failed = 1 /\ changed = 1
  /\ calls[Len(calls)] = Call("apply_live", 2)
  /\ items[1].cache_key # None /\ items[2].cache_key # None
  /\ cache_item_id(items[1]) # cache_item_id(items[2])
  /\ store[cache_item_id(items[1])] = None
  /\ store[cache_item_id(items[2])] = items[2].cache_key

\* Keys an item may carry, with and without the separator in them.
KeyTexts == {"", "a", "b", "x", ":a", "a:b", "line:a"}

\* Two (kind, key) pairs with registered kinds that differ in kind or in
\* key have different store identifiers.
IdsDistinct ==
  \A n1, n2 \in 1..Len(Registry) : \A k1, k2 \in KeyTexts :
    (n1 # n2 \/ k1 # k2)
      => cache_item_id(Item(Registry[n1], k1, None, None))
           # cache_item_id(Item(Registry[n2], k2, None, None))

\* C29: a step of the Apply loop changes no fingerprint but that of the
\* item it processes, and two (kind, key) pairs with registered kinds
\* that differ in kind or in key have different store identifiers.
C29_StoreKeyedByKindAndKey ==
  [][/\ \A id \in StoreIds :
          store'[id] # store[id]
            => InApplyLoop /\ id = cache_item_id(items[idx])
     /\ \A i \in 1..Len(items) :
          (InApplyLoop /\ i # idx
             /\ << items[i].kind, items[i].key >>
                  # << items[idx].kind, items[idx].key >>)
            => /\ cache_item_id(items[i]) # cache_item_id(items[idx])
               /\ store'[cache_item_id(items[i])] = store[cache_item_id(items[i])]
     /\ IdsDistinct]_vars

\* Two items of one kind with different keys, each applied and each with
\* its own fingerprint stored.
C29_Witness ==
  /\ mode = "Apply" /\ Len(items) = 2 /\ changed = 2
  /\ items[1].kind = items[2].kind /\ items[1].key # items[2].key
  /\ items[1].cache_key # items[2].cache_key
  /\ items[1].cache_key # None /\ items[2].cache_key # None
  /\ store[cache_item_id(items[1])] = items[1].cache_key
  /\ store[cache_item_id(items[2])] = items[2].cache_key

\* The probe of an eval_single call and the text it had before rewriting.
ProbeOf(k) == states[evald[k].idx]

PreRewrite(k) ==
  raw_before_rewrite(ProbeOf(k), evald[k].dep_results, evald[k].outcome)

\* The rules of the call's probe that compile and match the pre-rewrite
\* text.
Matching(k) ==
  {m \in 1..Len(ProbeOf(k).rewrite) :
     /\ RegexOk(ProbeOf(k).rewrite[m].pattern)
     /\ is_match(ProbeOf(k).rewrite[m].pattern, PreRewrite(k))}

\* What the rewrite law gives for a variant of the call's probe.
RewriteLaw(k, variant) ==
  IF Matching(k) = {} \/ variant = "original" THEN PreRewrite(k)
  ELSE ProbeOf(k).rewrite[CHOOSE m \in Matching(k) :
                            \A n \in Matching(k) : m <= n].value

\* The eval_single call whose result the map holds under a name that one
\* probe only carries.
CallOf(n) ==
  CHOOSE k \in 1..Len(evald) : ProbeOf(k).name = n

UniqueName(n) ==
  Cardinality({i \in 1..Len(states) : states[i].name = n}) = 1

\* C21 (as stated): when eval_single is called for a probe, the dep
\* results its render context is built from hold the raw value of every
\* probe it depends on, directly or through other probes.
C21_TransitiveDepsInContext ==
  ppc \in {"eval", "done"} =>
    \A k \in 1..Len(evald) :
      \A p \in Closure(DepPairs(states)) :
        p[1] = evald[k].idx
          => /\ states[p[2]].name \in DOMAIN evald[k].dep_results
             /\ evald[k].dep_results[states[p[2]].name].raw
                  = results[states[p[2]].name].raw

\* C22: for every evaluated probe, the first rule in declared order that
\* compiles and matches the pre-rewrite text decides: no variant and
\* `raw` give that rule's replacement and `original` the pre-rewrite
\* text; when no rule matches all three give the pre-rewrite text; and
\* the `state` command answers a query for one of these variants with
\* that value.
C22_RewriteLaw ==
  /\ \A k \in 1..Len(evald) : \A v \in {None, "raw", "original"} :
       get_variant(evald[k].result, v) = [ok |-> TRUE, value |-> RewriteLaw(k, v)]
  /\ (/\ answer # NoAnswer
      /\ answer.query.variant \in {None, "raw", "original"}
      /\ UniqueName(answer.query.name))
       => /\ answer.ok
          /\ answer.value = RewriteLaw(CallOf(answer.query.name),
                                       answer.query.variant)

\* Two rules that both match "Linux": the first one's replacement is the
\* raw value and the query for `a.original` was answered with "Linux".
C22_Witness ==
  /\ Len(states) = 1 /\ Len(evald) = 1
  /\ states[1].rewrite = << Rule("inux", "x"), Rule("^Linux$", "linux") >>
  /\ evald[1].outcome.stdout = "Linux"
  /\ "a" \in DOMAIN results
  /\ results["a"].raw = "x"
  /\ answer.query = [name |-> "a", variant |-> "original"]
  /\ answer.ok /\ answer.value = "Linux"

\* C23 (as stated): a finished pass has a result for every probe, holding
\* every named template that renders; and a query for a declared template
\* that failed to render is answered, with the empty text.
C23_FailedTemplateIsEmpty ==
  /\ ppc = "done" =>
       \A i \in 1..Len(states) : states[i].name \in DOMAIN results
  /\ (/\ answer # NoAnswer
      /\ UniqueName(answer.query.name)
      /\ answer.query.variant
           \in DOMAIN ProbeOf(CallOf(answer.query.name)).templates
      /\ answer.query.variant
           \notin DOMAIN results[answer.query.name].templates)
       => answer.ok /\ answer.value = ""

\* C24 (as stated): for a probe whose command could not be started or
\* exited non-zero the command output is the empty text, and with no expr
\* and no rewrite rule so is its raw value; the pass does not end in an
\* error because of it.
C24_FailedCommandIsEmpty ==
  \A k \in 1..Len(evald) :
    (/\ ProbeOf(k).cmd # None
     /\ evald[k].outcome.cached = None
     /\ (~evald[k].outcome.started \/ evald[k].outcome.status # 0))
      => /\ CmdOutput(ProbeOf(k), evald[k].outcome) = ""
         /\ (ProbeOf(k).expr = NoExpr /\ ProbeOf(k).rewrite = << >>)
              => evald[k].result.raw = ""
         /\ ppc # "err"

\* C30 (as stated): a call of satisfy() on a requirement whose binary is
\* resolvable returns Ok and changes nothing; and whenever it returns Ok
\* the binary is resolvable on $PATH as the call leaves it, for each
\* install method.
C30_OkOnlyIfResolvable ==
  [][(pc = "satisfy" /\ sres = "none") =>
       /\ command_exists(req.binary, env_path, files)
            => sres' = "ok" /\ UNCHANGED << env_path, files >>
       /\ sres' = "ok" => command_exists(req.binary, env_path', files')]_vars

\* The layer (0-based, as in the source) the pass has put probe i in.
LayerNo(i) == LayerOf(i) - 1

\* The probes the deps of probe i resolve to.
DepIdx(i) ==
  {name_to_idx(states, states[i].deps[k]) : k \in 1..Len(states[i].deps)}

\* How often probe i occurs in a list of layers.
Occurrences(ls, i) ==
  Cardinality({p \in (1..Len(ls)) \X (1..Len(states)) :
                 p[2] <= Len(ls[p[1]]) /\ ls[p[1]][p[2]] = i})

\* C34: in the layers of an accepted probe list a probe without deps is
\* in layer 0 and any other probe is in the layer right after the highest
\* layer among the probes its deps resolve to.
C34_LayerIsLongestPath ==
  ppc \in {"eval", "done"} =>
    \A i \in 1..Len(states) :
      /\ Occurrences(layers, i) = 1
      /\ states[i].deps = << >> => LayerNo(i) = 0
      /\ states[i].deps # << >>
           => /\ \E d \in DepIdx(i) : LayerNo(i) = LayerNo(d) + 1
              /\ \A d \in DepIdx(i) : LayerNo(d) < LayerNo(i)

\* A finished pass over three probes whose second and third depend on
\* the first only, one of them listing it twice: two layers.
C34_Witness ==
  /\ ppc = "done" /\ Len(states) = 3
  /\ Len(layers) = 2 /\ Len(layers[2]) = 2
  /\ states[1].deps = << >>
  /\ states[2].deps = << "a" >> /\ states[3].deps = << "a", "a" >>

\* C40: for a probe list whose deps are all known, the counters topo_sort
\* ends with are never below zero (a probe's counter is 0 exactly when it
\* was layered), also with a dep listed twice, and no probe is in the
\* layers more than once.
C40_NoUnderflow ==
  (ppc # "idle" /\ DepsKnown(states)) =>
    \A i \in 1..Len(states) :
      /\ RunKahn(states).in_degree[i] >= 0
      /\ RunKahn(states).in_degree[i] = 0
           <=> Occurrences(RunKahn(states).layers, i) = 1
      /\ Occurrences(RunKahn(states).layers, i) <= 1

\* A pass over a list in which a probe lists the same dep twice, next to
\* a cycle that leaves counters above zero.
C40_Witness ==
  /\ ppc = "err" /\ Len(states) = 3 /\ DepsKnown(states)
  /\ states[1].deps = << >>
  /\ states[2].deps = << "a", "a" >>
  /\ states[3].deps = << "c" >>
  /\ Len(RunKahn(states).layers) = 2

\* C31: in an evaluation pass the result map changes only in the step
\* that joins a layer, taken when eval_single has been called for every
\* probe of the layer; a probe is started only as a probe of the current
\* layer, when every probe of the earlier layers has been started and has
\* its result in the map, and the dep results it is handed are those the
\* map held when the layer began: no result of a sibling.
C31_LayerBarrier ==
  [][ppc = "eval" =>
       /\ results' # results
            => /\ layer <= Len(layers)
               /\ InLayer \subseteq Started
               /\ layer' = layer + 1
               /\ evald' = evald
       /\ evald' # evald
            => /\ layer <= Len(layers)
               /\ evald' = Append(evald, evald'[Len(evald')])
               /\ evald'[Len(evald')].idx \in InLayer \ Started
               /\ evald'[Len(evald')].dep_results
                    = dep_results(evald'[Len(evald')].idx)
               /\ \A k \in 1..Len(evald) :
                    evald[k].idx \in InLayer
                      => evald[k].dep_results = dep_results(evald[k].idx)
               /\ results' = results
               /\ \A m \in 1..(layer - 1) : \A k \in 1..Len(layers[m]) :
                    /\ layers[m][k] \in Started
                    /\ states[layers[m][k]].name \in DOMAIN results]_vars

\* A probe of the second layer has been started after a first layer of
\* two probes was joined.
C31_Witness ==
  /\ ppc = "eval" /\ layer = 2 /\ Len(layers) = 2
  /\ Len(layers[1]) = 2 /\ Len(evald) = 3
  /\ Cardinality(DOMAIN results) = 2

\* C35 (as stated): when a dep result has no original (none of the dep's
\* rewrite rules matched), the entry the render context of the dependent
\* holds for that dep has an `original` field, equal to the dep's raw.
C35_DepOriginalDefaultsToRaw ==
  \A k \in 1..Len(evald) : \A d \in DOMAIN evald[k].dep_results :
    evald[k].dep_results[d].original = None
      => /\ "original" \in DOMAIN DepCtx(evald[k].dep_results)[CtxKey(d)]
         /\ DepCtx(evald[k].dep_results)[CtxKey(d)]["original"]
              = evald[k].dep_results[d].raw

\* The items of the list whose gate fails.
GatedItems == {i \in 1..Len(items) : ~should_run(items[i])}

\* C38 (as stated): when a Plan run has printed its summary, skipped is
\* the number of items whose gate fails and the summary's count is the
\* number of items whose gate passes.
C38_PlanCountsPassingItems ==
  (summary # NoSummary /\ summary.kind = "plan") =>
    /\ skipped = Cardinality(GatedItems)
    /\ summary.total = Len(items) - Cardinality(GatedItems)

C36_TtlCache ==
  [][/\ pcache' # pcache => (ppc = "eval" /\ Len(evald') = Len(evald) + 1)
     /\ (ppc = "eval" /\ Len(evald') = Len(evald) + 1) =>
          LET w == evald'[Len(evald')]
              st == states[w.idx]
              key == "state-probe:" \o st.name
          IN /\ (st.cmd # None /\ Ttl(st).ok) =>
                  /\ w.looked /\ w.key = key
                  /\ (w.seen # NoEntry /\ w.seen.age < Ttl(st).secs) =>
                       /\ ~w.outcome.ran
                       /\ CmdOutput(st, w.outcome) = w.seen.data
                       /\ pcache' = pcache
                  /\ (w.seen = NoEntry \/ w.seen.age > Ttl(st).secs) =>
                       /\ w.outcome.ran
                       /\ CmdOutput(st, w.outcome)
                            = (IF w.outcome.started THEN w.outcome.stdout
                               ELSE "")
                       /\ key \in DOMAIN pcache'
                       /\ pcache'[key]
                            = CacheEntry(CmdOutput(st, w.outcome), 0)
                       /\ \A o \in DOMAIN pcache \ {key} :
                            o \in DOMAIN pcache' /\ pcache'[o] = pcache[o]
             /\ ~st.ttl.some =>
                  /\ ~w.looked /\ w.stored = None
                  /\ st.cmd # None => w.outcome.ran
                  /\ pcache' = pcache]_vars

\* A probe with `ttl: 1s` whose cache file was fresh: the command was not
\* run, the raw value is the cached text and the file is as it was.
C36_Witness ==
  /\ ppc = "done" /\ Len(states) = 1 /\ Len(evald) = 1
  /\ states[1].cmd # None /\ states[1].ttl = TtlText(<< "1", "s" >>)
  /\ evald[1].seen = CacheEntry("Linux", 0)
  /\ ~evald[1].outcome.ran
  /\ "a" \in DOMAIN results /\ results["a"].raw = "Linux"
  /\ pcache = (probe_cache_key("a") :> CacheEntry("Linux", 0))

\* The call looks at the probe cache or writes it.
Touches(k) == evald[k].looked \/ evald[k].stored # None

\* C32 (as stated): two calls of eval_single for probes of one layer that
\* look at or write the probe cache do so under different keys.
C32_LayerKeysDisjoint ==
  ppc \in {"eval", "done"} =>
    \A k, m \in 1..Len(evald) :
      (/\ k # m
       /\ LayerOf(evald[k].idx) = LayerOf(evald[m].idx)
       /\ Touches(k) /\ Touches(m))
        => evald[k].key # evald[m].key

\* The orders in which every probe comes after the probes its deps
\* resolve to.
TopoOrders ==
  {o \in [1..Len(states) -> 1..Len(states)] :
     /\ \A i, j \in 1..Len(states) : i # j => o[i] # o[j]
     /\ \A i, j \in 1..Len(states) :
          << o[i], o[j] >> \in DepPairs(states) => j < i}

\* What the command of probe i did in this pass.
OutcomeOf(i) == evald[CHOOSE k \in 1..Len(evald) : evald[k].idx = i].outcome

\* The result map after evaluating the probes one at a time in the order
\* o, from its k-th on, each over the results of its deps in the map.
RECURSIVE OneAtATime(_, _, _)
OneAtATime(o, k, m) ==
  IF k > Len(states) THEN m
  ELSE LET st == states[o[k]]
           deps == [d \in {st.deps[x] : x \in 1..Len(st.deps)} \cap DOMAIN m
                      |-> m[d]]
       IN OneAtATime(o, k + 1,
                     (st.name :> eval_single(st, deps, OutcomeOf(o[k]))) @@ m)

\* C33 (as stated): when a pass over probes without ttl has ended, the
\* result map is the one that evaluating the probes one at a time gives,
\* with the same command outcomes, in every topological order (and so
\* does not depend on the order the workers of a layer ran in).
C33_SameAsOneAtATime ==
  (ppc = "done" /\ \A i \in 1..Len(states) : ~states[i].ttl.some) =>
    \A o \in TopoOrders : results = OneAtATime(o, 1, EmptyMap)

\* The names that are in `names` or reachable from them through the deps
\* of the probes that carry them.
RECURSIVE NameClosure(_, _)
NameClosure(cfg, names) ==
  LET more == names \cup
                UNION {{cfg[i].deps[k] : k \in 1..Len(cfg[i].deps)} :
                       i \in {j \in 1..Len(cfg) : cfg[j].name \in names}}
  IN IF more = names THEN names ELSE NameClosure(cfg, more)

\* C39 (as stated): the list eval_states hands to eval_all holds exactly
\* the probes that are named in `needed` or reachable from them through
\* deps, in config order, and eval_single is called for no other probe;
\* when a dep of the selected list names no probe of it, a dep of the
\* whole list names no probe of the whole list either.
C39_SelectsDepClosure ==
  (needed # {} /\ ppc # "idle") =>
    /\ states = SelectSeq(config_state,
                          LAMBDA st : st.name \in NameClosure(config_state,
                                                              needed))
    /\ \A k \in 1..Len(evald) :
         states[evald[k].idx].name \in NameClosure(config_state, needed)
    /\ ~DepsKnown(states) => ~DepsKnown(config_state)

====
